---- MODULE Spec2Model ----
(***************************************************************************)
(* pgdumplib: the Dump archive object (src/pgdumplib/dump.py), its entry   *)
(* authoring API, the spill store, the custom-format writer and reader,    *)
(* and the row converters (src/pgdumplib/converters.py).                   *)
(*                                                                         *)
(* Text is modelled as sequences of character codes (ASCII only, so that   *)
(* encode/decode with the archive encoding are the identity on codes);     *)
(* entry attributes that the code only copies are TLA+ strings.            *)
(***************************************************************************)
EXTENDS Integers, Sequences, FiniteSets, TLC

VARIABLES
    entries,    \* Dump.entries: the list of Entry records
    writers,    \* Dump._writers: the TableData handles, in insertion order
    spill,      \* the files <dump_id>.gz of Dump._temp_dir: dump_id -> bytes
    file,       \* the archive file on disk (the one path save and load use)
    version,    \* Dump._vmaj, _vmin, _vrev
    origin,     \* how the archive object came to be: "new" or "loaded"
    io,         \* number of save / load calls made so far
    appended,   \* history: rows accepted by each row-append handle
    saved,      \* history: the archive (entries, rows, blobs) at the last save
    last        \* the last call and its outcome

vars ==
    <<entries, writers, spill, file, version, origin, io, appended, saved, last>>

----------------------------------------------------------------------------
(* Bounds of the model *)

MaxEntries == 6     \* entries in an archive (3 bootstrap entries included)
MaxRows == 2        \* rows appended through one handle
MaxIO == 3          \* save and load calls in one behaviour

----------------------------------------------------------------------------
(* constants.py *)

K_OFFSET_POS_NOT_SET == 1
K_OFFSET_POS_SET == 2
K_OFFSET_NO_DATA == 3

BLK_DATA == 1
BLK_BLOBS == 3

SECTION_NONE == "None"
SECTION_PRE_DATA == "Pre-Data"
SECTION_DATA == "DATA"
SECTION_POST_DATA == "Post-Data"

SECTIONS == <<SECTION_NONE, SECTION_PRE_DATA, SECTION_DATA, SECTION_POST_DATA>>

MIN_VER == <<1, 12, 0>>
MAX_VER == <<1, 13, 0>>

TABLE_DATA == "TABLE DATA"
BLOBS == "BLOBS"
ENCODING == "ENCODING"

\* The descriptors the model uses, with their sections.  The table itself is
\* not among the source files; it follows the taxonomy of the specification
\* (section 3, "section: derived from desc", and the preferred lists of 4.6).
SECTION_MAPPING ==
    [d \in {"ENCODING", "STDSTRINGS", "SEARCHPATH", "SCHEMA", "TYPE", "TABLE",
            "TABLE DATA", "BLOBS", "INDEX", "TRIGGER", "COMMENT"} |->
        CASE d \in {"ENCODING", "STDSTRINGS", "SEARCHPATH",
                    "SCHEMA", "TYPE", "TABLE"} -> SECTION_PRE_DATA
          [] d \in {"TABLE DATA", "BLOBS"} -> SECTION_DATA
          [] d \in {"INDEX", "TRIGGER"} -> SECTION_POST_DATA
          [] OTHER -> SECTION_NONE]

\* Character codes used by the row format
TAB == 9
LF == 10
BACKSLASH == 92
CHAR_N == 78
DOT == 46

\* None as a column value (a row field is NULL or a sequence of codes)
NULL == <<-1>>

----------------------------------------------------------------------------
(* Helpers on sequences and sets *)

Range(s) == {s[i] : i \in DOMAIN s}

MaxOf(S) == CHOOSE m \in S : \A x \in S : x <= m

RECURSIVE Concat(_)
Concat(ss) == IF ss = <<>> THEN <<>> ELSE Head(ss) \o Concat(Tail(ss))

\* Python's sorted(...) of a set of integers
RECURSIVE Sorted(_)
Sorted(S) ==
    IF S = {} THEN <<>>
    ELSE LET m == CHOOSE x \in S : \A y \in S : x <= y
         IN <<m>> \o Sorted(S \ {m})

----------------------------------------------------------------------------
(* class Entry *)

Entry(dump_id, had_dumper, table_oid, oid, tag, desc, defn, drop_stmt, copy_stmt, namespace, tablespace, owner, with_oids, dependencies, data_state, offset) ==
    [dump_id |-> dump_id, had_dumper |-> had_dumper, table_oid |-> table_oid,
     oid |-> oid, tag |-> tag, desc |-> desc, defn |-> defn,
     drop_stmt |-> drop_stmt, copy_stmt |-> copy_stmt,
     namespace |-> namespace, tablespace |-> tablespace, owner |-> owner,
     with_oids |-> with_oids, dependencies |-> dependencies,
     data_state |-> data_state, offset |-> offset]

\* Entry.section
section(e) == SECTION_MAPPING[e.desc]

\* Dump.__init__: the three entries every new archive starts with
BootstrapEntries ==
    << Entry(1, FALSE, "", "", ENCODING, ENCODING,
             "SET client_encoding = 'UTF8';\n", "", "", "", "", "", FALSE,
             <<>>, K_OFFSET_NO_DATA, 0),
       Entry(2, FALSE, "", "", "STDSTRINGS", "STDSTRINGS",
             "SET standard_conforming_strings = 'on';\n", "", "", "", "", "",
             FALSE, <<>>, K_OFFSET_NO_DATA, 0),
       Entry(3, FALSE, "", "", "SEARCHPATH", "SEARCHPATH",
             "SELECT pg_catalog.set_config('search_path', '', false);\n",
             "", "", "", "", "", FALSE, <<>>, K_OFFSET_NO_DATA, 0) >>

dump_ids(es) == {es[i].dump_id : i \in DOMAIN es}

\* _next_dump_id were it to count the entries instead of taking the largest id
next_dump_id_count(es) == Len(es) + 1

\* Dump._next_dump_id
next_dump_id(es) == MaxOf(dump_ids(es)) + 1

\* Dump._data_entries
data_entries(es) == SelectSeq(es, LAMBDA e : section(e) = SECTION_DATA)

\* Dump.get_entry: the first entry with the dump_id
get_entry(es, dump_id) ==
    es[CHOOSE i \in DOMAIN es :
          /\ es[i].dump_id = dump_id
          /\ \A j \in DOMAIN es : es[j].dump_id = dump_id => i <= j]

----------------------------------------------------------------------------
(* Dump.add_entry *)

\* add_entry were it not to look at the dependencies
add_entry_error_unchecked(es, desc, dependencies, dump_id) ==
    IF desc \notin DOMAIN SECTION_MAPPING THEN "InvalidDescriptor"
    ELSE IF dump_id # <<>> /\ dump_id[1] < 1 THEN "InvalidDumpId"
    ELSE IF dump_id # <<>> /\ dump_id[1] # 0 /\ dump_id[1] \in dump_ids(es)
        THEN "InvalidDumpId"
    ELSE "ok"

\* The error add_entry raises for a call, or "ok".  dump_id is <<>> when the
\* argument is omitted (None) and <<n>> when it is given.
add_entry_error(es, desc, dependencies, dump_id) ==
    IF desc \notin DOMAIN SECTION_MAPPING THEN "InvalidDescriptor"
    ELSE IF dump_id # <<>> /\ dump_id[1] < 1 THEN "InvalidDumpId"
    ELSE IF dump_id # <<>> /\ dump_id[1] # 0 /\ dump_id[1] \in dump_ids(es)
        THEN "InvalidDumpId"
    ELSE IF \E k \in DOMAIN dependencies : dependencies[k] \notin dump_ids(es)
        THEN "UnknownDependency"
    ELSE "ok"

\* add_entry were it to append the entry before it validates the dependencies
add_entry_entries_eager(es, desc, namespace, tag, dependencies, dump_id) ==
    IF add_entry_error(es, desc, dependencies, dump_id)
          \notin {"ok", "UnknownDependency"}
    THEN es
    ELSE Append(es,
            Entry(IF dump_id # <<>> /\ dump_id[1] # 0
                    THEN dump_id[1] ELSE next_dump_id(es),
                  FALSE, "", "", tag, desc, "", "", "", namespace, "", "",
                  FALSE, dependencies, K_OFFSET_NO_DATA, 0))

\* The list of entries after the call
add_entry_entries(es, desc, namespace, tag, dependencies, dump_id) ==
    IF add_entry_error(es, desc, dependencies, dump_id) # "ok" THEN es
    ELSE Append(es,
            Entry(IF dump_id # <<>> /\ dump_id[1] # 0
                    THEN dump_id[1] ELSE next_dump_id(es),
                  FALSE, "", "", tag, desc, "", "", "", namespace, "", "",
                  FALSE, dependencies, K_OFFSET_NO_DATA, 0))

add_entry(desc, namespace, tag, dependencies, dump_id) ==
    /\ Len(entries) < MaxEntries
    /\ entries' = add_entry_entries(entries, desc, namespace, tag,
                                    dependencies, dump_id)
    /\ last' = [op |-> "add_entry",
                out |-> add_entry_error(entries, desc, dependencies, dump_id),
                desc |-> desc, dependencies |-> dependencies,
                dump_id |-> dump_id]
    /\ UNCHANGED <<writers, spill, file, version, origin, io, appended, saved>>

----------------------------------------------------------------------------
(* class TableData and Dump.table_data_writer *)

\* TableData._convert, for None and str columns
convert_column(column) ==
    IF column = NULL THEN <<BACKSLASH, CHAR_N>> ELSE column

\* '\t'.join(...)
RECURSIVE JoinTab(_)
JoinTab(cols) ==
    IF cols = <<>> THEN <<>>
    ELSE IF Len(cols) = 1 THEN cols[1]
    ELSE cols[1] \o <<TAB>> \o JoinTab(Tail(cols))

\* TableData.append: the bytes one call writes to the handle
append_bytes(args) ==
    JoinTab([i \in DOMAIN args |-> convert_column(args[i])]) \o <<LF>>

\* table_data_writer were it to find no handle it has stored
has_writer_never(ws, t) == FALSE

\* Dump._writers is an insertion-ordered dict: a list of TableData records,
\* each with the key (the table entry's dump_id) it is stored under
has_writer(ws, t) == \E k \in DOMAIN ws : ws[k].table = t

writer_index(ws, t) == CHOOSE k \in DOMAIN ws : ws[k].table = t

\* TableData.__init__: a handle open for writing on a new, empty file
TableData(t, dump_id) ==
    [table |-> t, dump_id |-> dump_id, mode |-> "wb", data |-> <<>>]

\* The handles whose spill file is open: TableData opens the file for
\* writing when it is created and keeps it; finish() closes it and opens it
\* again for reading
open_handles(ws) == {k \in DOMAIN ws : ws[k].mode \in {"wb", "rb"}}

\* Creating or truncating the file <dump_id>.gz
create_file(sp, dump_id) ==
    [k \in DOMAIN sp \cup {dump_id} |-> IF k = dump_id THEN <<>> ELSE sp[k]]

\* table_data_writer were the entry it adds to depend on itself
table_data_entry_self(es, entry) ==
    Entry(next_dump_id(es), TRUE, "", "", entry.tag, TABLE_DATA, "", "",
          "COPY " \o entry.namespace \o "." \o entry.tag
              \o " (c1, c2) FROM stdin;",
          entry.namespace, "", entry.owner, FALSE, <<next_dump_id(es)>>,
          K_OFFSET_POS_NOT_SET, 0)

\* The entry table_data_writer adds for a table entry
table_data_entry(es, entry) ==
    Entry(next_dump_id(es), TRUE, "", "", entry.tag, TABLE_DATA, "", "",
          "COPY " \o entry.namespace \o "." \o entry.tag
              \o " (c1, c2) FROM stdin;",
          entry.namespace, "", entry.owner, FALSE, <<entry.dump_id>>,
          K_OFFSET_POS_NOT_SET, 0)

\* Dump.table_data_writer(entry, columns), entry being entries[i]
table_data_writer(i) ==
    /\ i \in DOMAIN entries
    /\ IF ~has_writer(writers, entries[i].dump_id)
       THEN /\ Len(entries) < MaxEntries
            /\ entries' = Append(entries, table_data_entry(entries, entries[i]))
            /\ writers' = Append(writers,
                  TableData(entries[i].dump_id, next_dump_id(entries)))
            /\ spill' = create_file(spill, next_dump_id(entries))
            /\ appended' = create_file(appended, next_dump_id(entries))
       ELSE UNCHANGED <<entries, writers, spill, appended>>
    /\ last' = [op |-> "table_data_writer", out |-> "ok",
                table |-> entries[i].dump_id,
                handle |-> writers'[writer_index(writers',
                                        entries[i].dump_id)].dump_id]
    /\ UNCHANGED <<file, version, origin, io, saved>>

\* TableData.append(*args) on the handle stored in writers[k].  The handle
\* takes the row while it is open for writing; after finish() it is open for
\* reading and the write raises.
append(k, args) ==
    /\ k \in DOMAIN writers
    /\ Len(appended[writers[k].dump_id]) < MaxRows
    /\ IF writers[k].mode = "wb"
       THEN /\ writers' = [writers EXCEPT
                              ![k].data = @ \o append_bytes(args)]
            /\ appended' = [appended EXCEPT
                              ![writers[k].dump_id] = Append(@, args)]
            /\ last' = [op |-> "append", out |-> "ok"]
       ELSE /\ UNCHANGED <<writers, appended>>
            /\ last' = [op |-> "append", out |-> "OSError"]
    /\ UNCHANGED <<entries, spill, file, version, origin, io, saved>>

----------------------------------------------------------------------------
(* The archive file.  The table of contents is kept as the list of entries   *)
(* as serialized by _write_entry; the data region is the list of items       *)
(* written after it (single bytes, ints, runs of raw bytes).  Sizes are in   *)
(* bytes, so that offsets are file positions.                                *)

intsize == 4
offsize == 8

SizeInt == 1 + intsize
SizeOffset == 1 + offsize

\* Dump._write_str: an int length and the encoded text
SizeStr(value) == SizeInt + Len(value)

\* str(n) for n >= 0, as character codes, and int(...) of such text
RECURSIVE StrOfInt(_)
StrOfInt(n) ==
    IF n < 10 THEN <<48 + n>> ELSE StrOfInt(n \div 10) \o <<48 + (n % 10)>>

RECURSIVE IntOfStr(_)
IntOfStr(s) ==
    IF Len(s) = 1 THEN s[1] - 48
    ELSE 10 * IntOfStr(SubSeq(s, 1, Len(s) - 1)) + (s[Len(s)] - 48)

IndexOf(seq, x) == CHOOSE i \in DOMAIN seq : seq[i] = x

\* Dump._write_entry: the fields written for an entry, in the form they take
\* in the file
write_entry(entry) ==
    [dump_id |-> entry.dump_id,
     had_dumper |-> IF entry.had_dumper THEN 1 ELSE 0,
     table_oid |-> IF entry.table_oid # "" THEN entry.table_oid ELSE "0",
     oid |-> IF entry.oid # "" THEN entry.oid ELSE "0",
     tag |-> entry.tag,
     desc |-> entry.desc,
     section |-> (IndexOf(SECTIONS, section(entry)) - 1) + 1,
     defn |-> entry.defn,
     drop_stmt |-> entry.drop_stmt,
     copy_stmt |-> entry.copy_stmt,
     namespace |-> entry.namespace,
     tablespace |-> entry.tablespace,
     owner |-> entry.owner,
     with_oids |-> IF entry.with_oids THEN "true" ELSE "false",
     dependencies |-> [k \in DOMAIN entry.dependencies |->
                          StrOfInt(entry.dependencies[k])],
     data_state |-> entry.data_state,
     offset |-> entry.offset]

RECURSIVE SumLen(_)
SumLen(ss) == IF ss = <<>> THEN 0 ELSE SizeInt + Len(Head(ss)) + SumLen(Tail(ss))

\* Bytes one serialized entry takes
SizeEntry(w) ==
    SizeInt + SizeInt + SizeStr(w.table_oid) + SizeStr(w.oid) + SizeStr(w.tag)
    + SizeStr(w.desc) + SizeInt + SizeStr(w.defn) + SizeStr(w.drop_stmt)
    + SizeStr(w.copy_stmt) + SizeStr(w.namespace) + SizeStr(w.tablespace)
    + SizeStr(w.owner) + SizeStr(w.with_oids) + SumLen(w.dependencies)
    + SizeInt + SizeOffset

RECURSIVE SizeToc(_)
SizeToc(toc) == IF toc = <<>> THEN 0 ELSE SizeEntry(Head(toc)) + SizeToc(Tail(toc))

\* Dump._write_toc and the entry count: magic, six header bytes, the
\* compression flag, the timestamp (seven ints), dbname, server_version,
\* dump_version, then the number of entries
VERSION_INFO == "11.3 (pgdumplib 1.0.0)"
dbname == "test"

SizeHeader ==
    5 + 6 + SizeInt + 7 * SizeInt + SizeStr(dbname) + SizeStr(VERSION_INFO)
    + SizeStr(VERSION_INFO) + SizeInt

\* Items of the data region
ItemByte(v) == [k |-> "byte", v |-> v]
ItemInt(v) == [k |-> "int", v |-> v]
ItemRaw(bytes) == [k |-> "raw", v |-> bytes]

SizeItem(t) ==
    CASE t.k = "byte" -> 1
      [] t.k = "int" -> SizeInt
      [] t.k = "raw" -> Len(t.v)

RECURSIVE SizeItems(_)
SizeItems(ts) == IF ts = <<>> THEN 0 ELSE SizeItem(Head(ts)) + SizeItems(Tail(ts))

\* A run of zero bytes writes nothing
RawItems(bytes) == IF bytes = <<>> THEN <<>> ELSE <<ItemRaw(bytes)>>

----------------------------------------------------------------------------
(* toposort.toposort_flatten(data, sort=True), the library the writer calls *)

RECURSIVE toposort_levels(_)
toposort_levels(data) ==
    LET ordered == {k \in DOMAIN data : data[k] = {}}
    IN  IF ordered = {} THEN <<>>
        ELSE <<ordered>> \o
             toposort_levels([k \in DOMAIN data \ ordered |-> data[k] \ ordered])

\* Self dependencies are dropped; an item that is only depended upon becomes
\* an item with no dependencies
toposort_items(data) ==
    LET extra == UNION {data[k] : k \in DOMAIN data} \ DOMAIN data
    IN  [k \in DOMAIN data \cup extra |->
            IF k \in DOMAIN data THEN data[k] \ {k} ELSE {}]

\* The levels in turn, each sorted; CircularDependencyError when some items
\* are never free of dependencies
toposort_sorted(items, levels) ==
    [order |-> Concat([i \in DOMAIN levels |-> Sorted(levels[i])]),
     circular |-> UNION Range(levels) # DOMAIN items]

toposort_of(items) == toposort_sorted(items, toposort_levels(items))

toposort_flatten(data) == toposort_of(toposort_items(data))

----------------------------------------------------------------------------
(* Dump._write_entries and Dump._write_section: the order in which the      *)
(* entries are serialized, as the list of entries written                    *)

PRE_DATA_TYPES ==
    <<"SCHEMA", "EXTENSION", "AGGREGATE", "OPERATOR", "OPERATOR CLASS",
      "CAST", "COLLATION", "CONVERSION", "PROCEDURAL LANGUAGE",
      "FOREIGN DATA WRAPPER", "FOREIGN SERVER", "SERVER", "DOMAIN", "TYPE",
      "SHELL TYPE">>

POST_DATA_TYPES == <<"CHECK CONSTRAINT", "CONSTRAINT", "INDEX">>

\* {e.dump_id: set(e.dependencies) for e in entries if e.section == section}
\* (a later entry with the same dump_id replaces an earlier one)
section_graph(es, sec) ==
    LET idx == {i \in DOMAIN es : section(es[i]) = sec}
        lastOf(id) == CHOOSE i \in idx :
                          /\ es[i].dump_id = id
                          /\ \A j \in idx : es[j].dump_id = id => j <= i
    IN  [id \in {es[i].dump_id : i \in idx} |->
            Range(es[lastOf(id)].dependencies)]

\* The first loop of _write_section: every entry of each listed type
RECURSIVE write_obj_types(_, _)
write_obj_types(es, obj_types) ==
    IF obj_types = <<>> THEN <<>>
    ELSE SelectSeq(es, LAMBDA e : e.desc = Head(obj_types))
         \o write_obj_types(es, Tail(obj_types))

\* The second loop of _write_section over the ids not yet saved: an id that
\* no entry has makes get_entry return None, and writing None raises
write_ids(es, log, ids) ==
    LET bad == {k \in DOMAIN ids : ids[k] \notin dump_ids(es)}
        n == IF bad = {} THEN Len(ids)
             ELSE (CHOOSE k \in bad : \A j \in bad : k <= j) - 1
    IN  [log |-> log \o [k \in 1..n |-> get_entry(es, ids[k])],
         err |-> IF bad = {} THEN "ok" ELSE "AttributeError"]

\* The second loop of _write_section, log being what is written so far
write_sorted(es, log, sorted) ==
    IF sorted.circular THEN [log |-> log, err |-> "CircularDependencyError"]
    ELSE write_ids(es, log,
                   SelectSeq(sorted.order, LAMBDA id : id \notin dump_ids(log)))

\* _write_section(section, obj_types, saved): st is the list written so far
\* (st.log) with the error raised, if any (st.err)
write_section(es, sec, obj_types, st) ==
    IF st.err # "ok" THEN st
    ELSE write_sorted(es, st.log \o write_obj_types(es, obj_types),
                      toposort_flatten(section_graph(es, sec)))

\* _write_entries
write_entries(es) ==
    write_section(es, SECTION_NONE, <<>>,
      write_section(es, SECTION_POST_DATA, POST_DATA_TYPES,
        write_section(es, SECTION_DATA, <<>>,
          write_section(es, SECTION_PRE_DATA, PRE_DATA_TYPES,
            [log |-> SubSeq(es, 1, IF Len(es) < 3 THEN Len(es) ELSE 3),
             err |-> "ok"]))))

\* The entries of a list as _write_entry serializes them
serialize(log) == [k \in DOMAIN log |-> write_entry(log[k])]

\* The table of contents one pass writes
write_toc_entries(es) == serialize(write_entries(es).log)

----------------------------------------------------------------------------
(* The spill store and the data pass of the writer *)

\* struct.pack('I', n) and struct.unpack('I', ...): four bytes, low byte first
pack_I(n) ==
    <<n % 256, (n \div 256) % 256, (n \div 65536) % 256,
      (n \div 16777216) % 256>>

unpack_I(b) == b[1] + 256 * b[2] + 65536 * b[3] + 16777216 * b[4]

\* handle.read(n): at most n bytes from the front
ReadN(bytes, n) == SubSeq(bytes, 1, IF n < Len(bytes) THEN n ELSE Len(bytes))

Drop(bytes, n) == SubSeq(bytes, n + 1, Len(bytes))

\* The (oid, length, bytes) records of a blob spill file, read the way
\* _write_blobs reads them: a short read where an oid is due ends the list
RECURSIVE spill_blobs(_)
spill_blobs(bytes) ==
    IF Len(bytes) < 4 THEN <<>>
    ELSE <<[oid |-> unpack_I(ReadN(bytes, 4)),
            length |-> unpack_I(ReadN(Drop(bytes, 4), 4)),
            data |-> ReadN(Drop(bytes, 8), unpack_I(ReadN(Drop(bytes, 4), 4)))]>>
         \o spill_blobs(Drop(bytes, 8 + unpack_I(ReadN(Drop(bytes, 4), 4))))

\* The (oid, bytes) pairs Dump.blobs reads from one spill file: up to a short
\* read or an oid of 0
RECURSIVE blob_pairs(_)
blob_pairs(bytes) ==
    IF Len(bytes) < 8 \/ unpack_I(ReadN(bytes, 4)) = 0 THEN <<>>
    ELSE LET length == unpack_I(ReadN(Drop(bytes, 4), 4))
         IN  <<[oid |-> unpack_I(ReadN(bytes, 4)),
                data |-> ReadN(Drop(bytes, 8), length)]>>
             \o blob_pairs(Drop(bytes, 8 + length))

\* Dump.blobs: the pairs of every BLOBS entry in turn; a missing spill file
\* raises NoDataError out of the iteration
RECURSIVE blobs_from(_, _)
blobs_from(des, sp) ==
    LET rest == blobs_from(Tail(des), sp)
    IN  IF des = <<>> THEN [out |-> "ok", pairs |-> <<>>]
        ELSE IF Head(des).desc # BLOBS THEN rest
        ELSE IF Head(des).dump_id \notin DOMAIN sp
        THEN [out |-> "NoDataError", pairs |-> <<>>]
        ELSE [out |-> rest.out,
              pairs |-> blob_pairs(sp[Head(des).dump_id]) \o rest.pairs]

blobs_result(es, sp) == blobs_from(data_entries(es), sp)

\* Writing the file <dump_id>.gz
put_file(sp, dump_id, bytes) ==
    [k \in DOMAIN sp \cup {dump_id} |-> IF k = dump_id THEN bytes ELSE sp[k]]

\* TableData.finish: the write side is closed, which completes the file, and
\* the file is reopened for reading
finish(w) == [w EXCEPT !.mode = "rb"]

\* finish were it to leave the file of a handle that is already open for
\* reading empty
finish_file_once(sp, w) ==
    IF w.mode = "wb" THEN put_file(sp, w.dump_id, w.data)
    ELSE put_file(sp, w.dump_id, <<>>)

\* The spill files after finish(): closing the write side completes the file
\* with the rows the handle took; a handle open for reading leaves it as is
finish_file(sp, w) ==
    IF w.mode = "wb" THEN put_file(sp, w.dump_id, w.data) ELSE sp

\* The block of a table: header, the size, the bytes and the end indicator
table_block(acc, dump_id, bytes) ==
    [acc EXCEPT
        !.items = @ \o <<ItemByte(BLK_DATA), ItemInt(dump_id),
                         ItemInt(Len(bytes))>>
                    \o RawItems(bytes) \o <<ItemInt(0)>>,
        !.size = Len(bytes)]

\* Dump._write_table_data(dump_id) with the handle writers[k]
write_writer_data(acc, dump_id, k) ==
    table_block([acc EXCEPT !.ws[k] = finish(@),
                            !.sp = finish_file(@, acc.ws[k])],
                dump_id,
                finish_file(acc.sp, acc.ws[k])[dump_id])

\* Dump._write_table_data(dump_id).  acc is the state of the data pass:
\* entries, writers, spill files, the items written and the error raised
write_table_data(acc, dump_id) ==
    LET ks == {k \in DOMAIN acc.ws : acc.ws[k].dump_id = dump_id}
    IN  IF ks # {}
        THEN write_writer_data(acc, dump_id,
                               CHOOSE k \in ks : \A j \in ks : k <= j)
        ELSE IF dump_id \notin DOMAIN acc.sp
        THEN [acc EXCEPT
                !.items = @ \o <<ItemByte(BLK_DATA), ItemInt(dump_id)>>,
                !.err = "NoDataError"]
        ELSE table_block(acc, dump_id, acc.sp[dump_id])

\* The items _write_blobs writes for one blob
blob_items(b) ==
    <<ItemInt(b.oid), ItemInt(b.length)>> \o RawItems(b.data) \o <<ItemInt(0)>>

\* The block of the blobs bs; the length returned is that of the last blob,
\* a name that is not bound when there is no blob
blobs_block(acc, dump_id, bs) ==
    [acc EXCEPT
        !.items = @ \o <<ItemByte(BLK_BLOBS), ItemInt(dump_id)>>
                    \o Concat([i \in DOMAIN bs |-> blob_items(bs[i])])
                    \o <<ItemInt(0)>>,
        !.size = IF bs = <<>> THEN 0 ELSE bs[Len(bs)].length,
        !.err = IF bs = <<>> THEN "UnboundLocalError" ELSE "ok"]

\* Dump._write_blobs(dump_id)
write_blobs(acc, dump_id) ==
    IF dump_id \notin DOMAIN acc.sp
    THEN [acc EXCEPT !.err = "NoDataError"]
    ELSE blobs_block(acc, dump_id, spill_blobs(acc.sp[dump_id]))

\* saved.add(entry.dump_id), reached when the block was written
mark_saved(acc, dump_id) ==
    IF acc.err = "ok" THEN [acc EXCEPT !.saved = @ \cup {dump_id}] ELSE acc

\* if size: data_state = K_OFFSET_POS_SET, for entries[i]
set_data_state(acc, i) ==
    IF acc.err = "ok" /\ acc.size # 0
    THEN [acc EXCEPT !.es[i].data_state = K_OFFSET_POS_SET]
    ELSE acc

\* The body of the loop of Dump._write_data for a data entry
write_block(acc, entry) ==
    IF entry.desc = TABLE_DATA
    THEN mark_saved(write_table_data(acc, entry.dump_id), entry.dump_id)
    ELSE IF entry.desc = BLOBS
    THEN mark_saved(write_blobs(acc, entry.dump_id), entry.dump_id)
    ELSE acc

\* The turn of the loop were it to record where the data region starts
\* instead of where the handle is
write_data_entry_at_start(acc, i, start) ==
    IF section(acc.es[i]) # SECTION_DATA THEN acc
    ELSE set_data_state(
            write_block([acc EXCEPT !.es[i].offset = start, !.size = 0],
                        acc.es[i]),
            i)

\* One turn of the loop of Dump._write_data, for entries[i]; start is the
\* file position where the data region begins
write_data_entry(acc, i, start) ==
    IF section(acc.es[i]) # SECTION_DATA THEN acc
    ELSE set_data_state(
            write_block([acc EXCEPT !.es[i].offset = start + SizeItems(acc.items),
                                    !.size = 0],
                        acc.es[i]),
            i)

\* Dump._write_data: the loop over entries[i..]
RECURSIVE write_data_from(_, _, _)
write_data_from(acc, i, start) ==
    IF i > Len(acc.es) \/ acc.err # "ok" THEN acc
    ELSE write_data_from(write_data_entry(acc, i, start), i + 1, start)

write_data(es, ws, sp, start) ==
    write_data_from([es |-> es, ws |-> ws, sp |-> sp, items |-> <<>>,
                     size |-> 0, saved |-> {}, err |-> "ok"], 1, start)

----------------------------------------------------------------------------
(* Dump.save and Dump._save *)

NoFile == [exists |-> FALSE]

\* The file as written: header, compression flag 0, count, entries, data
ArchiveFile(ver, count, toc, items) ==
    [exists |-> TRUE, magic |-> "PGDMP", version |-> ver,
     intsize |-> intsize, offsize |-> offsize, format |-> "Custom",
     compression |-> 0, count |-> count, toc |-> toc, data |-> items]

\* File position where the data region of a file starts
data_start(toc) == SizeHeader + SizeToc(toc)

\* _save after _write_data: when data was saved the table of contents is
\* written again, over the first one.  d is the data pass as it ended.
save_toc(ver, toc1, d) ==
    [es |-> d.es, ws |-> d.ws, sp |-> d.sp, err |-> d.err,
     file |-> ArchiveFile(ver, Len(d.es),
                 IF d.err = "ok" /\ d.saved # {} THEN write_toc_entries(d.es)
                 ELSE toc1,
                 d.items)]

\* _save after the first _write_entries, which wrote toc1
save_data(es, ws, sp, ver, toc1) ==
    save_toc(ver, toc1, write_data(es, ws, sp, data_start(toc1)))

\* _save from the first _write_entries on, pass1 being its outcome
save_entries(es, ws, sp, ver, pass1) ==
    IF pass1.err # "ok"
    THEN [es |-> es, ws |-> ws, sp |-> sp, err |-> pass1.err,
          file |-> ArchiveFile(ver, Len(es), serialize(pass1.log), <<>>)]
    ELSE save_data(es, ws, sp, ver, serialize(pass1.log))

\* What one call of save does: the entries, handles and spill files after it,
\* the file it leaves and the error it raises ("ok" when it returns)
save_result(es, ws, sp, ver) ==
    save_entries(es, ws, sp, ver, write_entries(es))

\* Dump.save, r being what the call does
save_as(r) ==
    /\ io < MaxIO
    /\ io' = io + 1
    /\ entries' = r.es
    /\ writers' = r.ws
    /\ spill' = r.sp
    /\ file' = r.file
    /\ saved' = [ok |-> r.err = "ok", by |-> origin, entries |-> r.es,
                 appended |-> appended,
                 blobs |-> blobs_result(entries, spill)]
    /\ last' = [op |-> "save", out |-> r.err,
                again |-> last.op = "save" /\ last.out = "ok"]
    /\ UNCHANGED <<version, origin, appended>>

save == save_as(save_result(entries, writers, spill, version))

----------------------------------------------------------------------------
(* The reader: Dump.load and the _read_* methods *)

\* Tuples of three were they compared part by part
TupleLE_each(a, b) == a[1] <= b[1] /\ a[2] <= b[2] /\ a[3] <= b[3]

\* Tuples of three compared as Python compares them
TupleLE(a, b) ==
    \/ a[1] < b[1]
    \/ a[1] = b[1] /\ a[2] < b[2]
    \/ a[1] = b[1] /\ a[2] = b[2] /\ a[3] <= b[3]

\* Dump._read_dependencies: the strings up to the first empty one, as a
\* sorted list without repetitions
read_dependencies(strs) == Sorted({IntOfStr(strs[k]) : k \in DOMAIN strs})

\* Dump._read_entry
read_entry(w) ==
    Entry(w.dump_id, w.had_dumper # 0, w.table_oid, w.oid, w.tag, w.desc,
          w.defn, w.drop_stmt, w.copy_stmt, w.namespace, w.tablespace,
          w.owner, w.with_oids = "true", read_dependencies(w.dependencies),
          w.data_state, w.offset)

\* Dump._read_entries: as many entries as the count in front of them says
read_entries(f) ==
    [k \in 1..(IF f.count < Len(f.toc) THEN f.count ELSE Len(f.toc)) |->
        read_entry(f.toc[k])]

\* handle.seek(offset): the item of the data region that starts at the
\* offset, 0 when no item starts there
item_at(f, offset) ==
    LET ks == {k \in DOMAIN f.data :
                  data_start(f.toc) + SizeItems(SubSeq(f.data, 1, k - 1))
                      = offset}
    IN  IF ks = {} THEN 0 ELSE CHOOSE k \in ks : TRUE

\* Dump._read_int with the handle at item k: the value (none at end of
\* file) and the item the handle is at afterwards.  Read where a block header
\* starts, the block-type byte is taken for the sign byte, and the sign byte
\* and the three low bytes of the dump id for the magnitude.
read_int(items, k) ==
    CASE k > Len(items) -> [none |-> TRUE, v |-> 0, k |-> k]
      [] k <= Len(items) /\ items[k].k = "int" ->
            [none |-> FALSE, v |-> items[k].v, k |-> k + 1]
      [] k < Len(items) /\ items[k].k = "byte" /\ items[k + 1].k = "int" ->
            [none |-> FALSE,
             v |-> LET n == items[k + 1].v
                       m == (IF n < 0 THEN 1 ELSE 0)
                            + 256 * ((IF n < 0 THEN -n ELSE n) % 16777216)
                   IN  IF items[k].v # 0 THEN -m ELSE m,
             k |-> k + 2]

\* Dump._read_data_uncompressed: chunks up to a length <= 0 (or end of file)
RECURSIVE read_data_uncompressed(_, _)
read_data_uncompressed(items, k) ==
    LET n == read_int(items, k)
        more == read_data_uncompressed(items, n.k + 1)
    IN  IF n.none \/ n.v <= 0 THEN [bytes |-> <<>>, k |-> n.k]
        ELSE IF n.k > Len(items)
        THEN [bytes |-> <<>>, k |-> n.k]
        ELSE [bytes |-> items[n.k].v \o more.bytes, k |-> more.k]

\* Dump._read_blobs: (oid, data) pairs up to an oid that is not positive
RECURSIVE read_blobs_from(_, _)
read_blobs_from(items, oid) ==
    LET data == read_data_uncompressed(items, oid.k)
        n1 == read_int(items, data.k)
        n2 == IF ~n1.none /\ n1.v = 0 THEN read_int(items, n1.k) ELSE n1
    IN  IF oid.none \/ oid.v <= 0 THEN <<>>
        ELSE <<[oid |-> oid.v, data |-> data.bytes]>>
             \o read_blobs_from(items, n2)

read_blobs(items, k) == read_blobs_from(items, read_int(items, k))

\* Dump._cache_blobs: what is written to the spill file
cache_blobs(blobs) ==
    Concat([i \in DOMAIN blobs |->
        pack_I(blobs[i].oid) \o pack_I(Len(blobs[i].data)) \o blobs[i].data])

\* After handle.seek(entry.offset), the handle being at item k of the data
\* region (0: at no item): _read_block_header and the caching of the block
load_block(f, acc, entry, k) ==
    IF ~(/\ k # 0 /\ k < Len(f.data)
         /\ f.data[k].k = "byte" /\ f.data[k + 1].k = "int")
       \/ f.data[k + 1].v = 0 \/ f.data[k + 1].v # entry.dump_id
    THEN [acc EXCEPT !.err = "RuntimeError: Dump IDs do not match"]
    ELSE IF f.data[k].v = BLK_DATA
    THEN [acc EXCEPT !.sp = put_file(@, entry.dump_id,
                               read_data_uncompressed(f.data, k + 2).bytes)]
    ELSE IF f.data[k].v = BLK_BLOBS
    THEN [acc EXCEPT !.sp = put_file(@, entry.dump_id,
                               cache_blobs(read_blobs(f.data, k + 2)))]
    ELSE [acc EXCEPT !.err = "RuntimeError: Unknown block type"]

\* The loop of Dump.load were it to pass over every entry that is not pos-set
load_entry_lenient(f, acc, entry) ==
    IF acc.err # "ok" \/ entry.data_state # K_OFFSET_POS_SET THEN acc
    ELSE load_block(f, acc, entry, item_at(f, entry.offset))

\* One turn of the loop of Dump.load over the data entries: acc.sp are the
\* spill files written so far, acc.err the error raised
load_entry(f, acc, entry) ==
    IF acc.err # "ok" \/ entry.data_state = K_OFFSET_NO_DATA THEN acc
    ELSE IF entry.data_state # K_OFFSET_POS_SET
    THEN [acc EXCEPT !.err = "RuntimeError: Unsupported data format"]
    ELSE load_block(f, acc, entry, item_at(f, entry.offset))

RECURSIVE load_data(_, _, _)
load_data(f, acc, es) ==
    IF es = <<>> THEN acc
    ELSE load_data(f, load_entry(f, acc, Head(es)), Tail(es))

\* Dump.load from the entries on
load_entries(f, es) ==
    load_data(f, [es |-> es, sp |-> <<>>, version |-> f.version, err |-> "ok"],
              data_entries(es))

\* Dump.load on a new Dump object: the entries and spill files it ends with
\* and the error it raises ("ok" when it returns)
load_result(f) ==
    IF ~f.exists
    THEN [es |-> <<>>, sp |-> <<>>, version |-> MIN_VER,
          err |-> "ValueError: Path does not exist"]
    ELSE IF f.magic # "PGDMP"
    THEN [es |-> <<>>, sp |-> <<>>, version |-> MIN_VER,
          err |-> "ValueError: Invalid archive header"]
    ELSE IF ~(TupleLE(MIN_VER, f.version) /\ TupleLE(f.version, MAX_VER))
    THEN [es |-> <<>>, sp |-> <<>>, version |-> f.version,
          err |-> "ValueError: Unsupported backup version"]
    ELSE load_entries(f, read_entries(f))

\* pgdumplib.load(path): a new Dump object loads the file, r being what
\* load does; when load raises the caller is left without an archive
\* (origin "failed")
load_as(r, own) ==
    /\ io < MaxIO
    /\ io' = io + 1
    /\ entries' = r.es
    /\ writers' = <<>>
    /\ spill' = r.sp
    /\ appended' = <<>>
    /\ version' = r.version
    /\ origin' = IF r.err = "ok" THEN "loaded" ELSE "failed"
    /\ last' = [op |-> "load", out |-> r.err, own |-> own]
    /\ UNCHANGED <<file, saved>>

load_file(f) == load_as(load_result(f), f = file)

\* The spill files after the caching loop of Dump.load has written `new` into
\* the temporary directory that already holds sp
load_over(sp, new) ==
    [k \in DOMAIN sp \cup DOMAIN new |->
        IF k \in DOMAIN new THEN new[k] ELSE sp[k]]

\* Dump.load(path) on the archive object in use, r being what load does.  A
\* missing path raises before anything is touched.  Otherwise self.entries
\* is wiped and read from the file and the blocks are cached into the
\* temporary directory of the object; self._writers is not touched.  The
\* call is made when every handle the object holds was finished by a save
\* and belongs to a dump id of the file: what a spill file holds that load
\* writes while a handle has it open for writing depends on the compressed
\* lengths.
dump_load_as(r) ==
    /\ io < MaxIO
    /\ io' = io + 1
    /\ IF r.err = "ValueError: Path does not exist"
       THEN UNCHANGED <<entries, spill, version, origin>>
       ELSE /\ \A k \in DOMAIN writers :
                 /\ writers[k].mode = "rb"
                 /\ \E i \in DOMAIN r.es :
                       r.es[i].dump_id = writers[k].dump_id
            /\ entries' = r.es
            /\ spill' = load_over(spill, r.sp)
            /\ version' = r.version
            /\ origin' = IF r.err = "ok" THEN "loaded" ELSE "failed"
    /\ last' = [op |-> "Dump.load", out |-> r.err]
    /\ UNCHANGED <<writers, appended, file, saved>>

----------------------------------------------------------------------------
(* The codec, byte by byte: Dump._write_int, _read_int, _write_offset and   *)
(* _read_offset, for an archive whose ints take `size` bytes                *)

RECURSIVE Pow256(_)
Pow256(k) == IF k = 0 THEN 1 ELSE 256 * Pow256(k - 1)

\* The `size` low bytes of a magnitude, low byte first: value & 0xFF, then
\* value >>= 8, size times
low_bytes(value, size) ==
    [k \in 1..size |-> (value \div Pow256(k - 1)) % 256]

\* The loops of _read_int and _read_offset: `size` bytes, low byte first; a
\* byte that is missing at the end of the file counts as 0
RECURSIVE read_magnitude(_, _)
read_magnitude(bytes, size) ==
    IF size = 0 THEN 0
    ELSE (IF bytes = <<>> THEN 0 ELSE Head(bytes))
         + 256 * read_magnitude(IF bytes = <<>> THEN <<>> ELSE Tail(bytes),
                                size - 1)

\* _write_int were it to write a sign byte of 0 whatever the value
write_int_unsigned(value, size) ==
    <<0>> \o low_bytes(IF value < 0 THEN -value ELSE value, size)

\* Dump._write_int: the sign byte, then the magnitude
write_int(value, size) ==
    <<IF value < 0 THEN 1 ELSE 0>>
    \o low_bytes(IF value < 0 THEN -value ELSE value, size)

\* Dump._read_int on a handle with `bytes` ahead: the value (none at the end
\* of the file) and the bytes left ahead
read_int_from(bytes, size) ==
    IF bytes = <<>> THEN [none |-> TRUE, v |-> 0, rest |-> <<>>]
    ELSE [none |-> FALSE,
          v |-> IF Head(bytes) # 0 THEN -read_magnitude(Tail(bytes), size)
                ELSE read_magnitude(Tail(bytes), size),
          rest |-> Drop(bytes, 1 + size)]

\* Dump._write_offset: the data_state byte, then the magnitude
write_offset(value, data_state, size) ==
    <<data_state>> \o low_bytes(value, size)

\* Dump._read_offset
read_offset(bytes, size) ==
    [data_state |-> IF bytes = <<>> THEN 0 ELSE Head(bytes),
     value |-> read_magnitude(IF bytes = <<>> THEN <<>> ELSE Tail(bytes), size),
     rest |-> Drop(bytes, 1 + size)]

----------------------------------------------------------------------------
(* converters.py *)

IsOctal(c) == c \in 48..55

HexDigits == (48..57) \cup (97..102) \cup (65..70)

HexValue(c) == IF c \in 48..57 THEN c - 48
               ELSE IF c \in 97..102 THEN c - 87 ELSE c - 55

\* The escapes were b, f, n, r, t and v to stand for themselves
EscapeChar_literal(c) == c

\* The character a single-character escape stands for
EscapeChar(c) ==
    CASE c = 98 -> 8        \* \b
      [] c = 102 -> 12      \* \f
      [] c = 110 -> 10      \* \n
      [] c = 114 -> 13      \* \r
      [] c = 116 -> 9       \* \t
      [] c = 118 -> 11      \* \v
      [] OTHER -> c

\* unescape_copy_text: the loop from index i on
RECURSIVE unescape_from(_, _)
unescape_from(field, i) ==
    LET n == Len(field)
        c == field[i + 1]
        oct2 == i + 2 <= n /\ IsOctal(field[i + 2])
        oct3 == oct2 /\ i + 3 <= n /\ IsOctal(field[i + 3])
        octval == IF oct3
                  THEN 64 * (c - 48) + 8 * (field[i + 2] - 48)
                       + (field[i + 3] - 48)
                  ELSE IF oct2 THEN 8 * (c - 48) + (field[i + 2] - 48)
                  ELSE c - 48
        octlen == IF oct3 THEN 3 ELSE IF oct2 THEN 2 ELSE 1
        hex1 == i + 2 <= n /\ field[i + 2] \in HexDigits
        hex2 == hex1 /\ i + 3 <= n /\ field[i + 3] \in HexDigits
        hexval == IF hex2
                  THEN 16 * HexValue(field[i + 2]) + HexValue(field[i + 3])
                  ELSE HexValue(field[i + 2])
    IN  IF i > n THEN <<>>
        ELSE IF field[i] = BACKSLASH /\ i + 1 <= n
        THEN IF IsOctal(c)
             THEN <<octval % 256>> \o unescape_from(field, i + 1 + octlen)
             ELSE IF c = 120
             THEN IF hex1
                  THEN <<hexval % 256>>
                       \o unescape_from(field, i + 2 + (IF hex2 THEN 2 ELSE 1))
                  ELSE <<c>> \o unescape_from(field, i + 2)
             ELSE <<EscapeChar(c)>> \o unescape_from(field, i + 2)
        ELSE <<field[i]>> \o unescape_from(field, i + 1)

unescape_copy_text(field) ==
    IF BACKSLASH \notin Range(field) THEN field ELSE unescape_from(field, 1)

\* str.split(sep): the pieces between the separators
RECURSIVE Split(_, _)
Split(str, sep) ==
    IF \A i \in DOMAIN str : str[i] # sep THEN <<str>>
    ELSE LET i == CHOOSE i \in DOMAIN str :
                      /\ str[i] = sep
                      /\ \A j \in 1..(i - 1) : str[j] # sep
         IN  <<SubSeq(str, 1, i - 1)>> \o Split(Drop(str, i), sep)

\* DataConverter.convert were it to test for the null marker after unescaping
DataConverter_convert_late_null(row) ==
    LET cols == Split(row, TAB)
    IN  [i \in DOMAIN cols |->
            IF unescape_copy_text(cols[i]) = <<BACKSLASH, CHAR_N>> THEN NULL
            ELSE unescape_copy_text(cols[i])]

\* DataConverter.convert
DataConverter_convert(row) ==
    LET cols == Split(row, TAB)
    IN  [i \in DOMAIN cols |->
            IF cols[i] = <<BACKSLASH, CHAR_N>> THEN NULL
            ELSE unescape_copy_text(cols[i])]

----------------------------------------------------------------------------
(* SmartDataConverter._convert_column.  Text is a list of character codes    *)
(* below 256.                                                                *)

MINUS == 45
COLON == 58

\* The characters below 256 for which str.isnumeric() holds: the digits, the
\* superscripts 2, 3 and 1 and the fractions 1/4, 1/2 and 3/4
NumericChars == (48..57) \cup {178, 179, 185, 188, 189, 190}

\* str.isnumeric()
isnumeric(str) == str # <<>> /\ \A i \in DOMAIN str : str[i] \in NumericChars

\* str.strip(c) for one character c
RECURSIVE lstrip_char(_, _)
lstrip_char(str, c) ==
    IF str # <<>> /\ Head(str) = c THEN lstrip_char(Tail(str), c) ELSE str

RECURSIVE rstrip_char(_, _)
rstrip_char(str, c) ==
    IF str # <<>> /\ str[Len(str)] = c
    THEN rstrip_char(SubSeq(str, 1, Len(str) - 1), c) ELSE str

strip_char(str, c) == rstrip_char(lstrip_char(str, c), c)

\* str.replace(c, '')
RECURSIVE remove_char(_, _)
remove_char(str, c) ==
    IF str = <<>> THEN <<>>
    ELSE (IF Head(str) = c THEN <<>> ELSE <<Head(str)>>)
         \o remove_char(Tail(str), c)

\* int(column) returns, for a column that is numeric once its '-' signs are
\* stripped: at most one sign, in front, and decimal digits only
int_accepts(column) ==
    /\ \A i \in DOMAIN column : i > 1 => column[i] \in 48..57
    /\ column[1] \in (48..57) \cup {MINUS}
    /\ Len(column) > 1 \/ column[1] # MINUS

\* decimal.Decimal(column) returns, for a column that is numeric once its
\* '-' signs are stripped and its '.' removed: at most one sign, in front,
\* decimal digits only and at most one '.'
Decimal_accepts(column) ==
    /\ \A i \in DOMAIN column : column[i] \in (48..57) \cup {MINUS, DOT}
    /\ \A i \in DOMAIN column : column[i] = MINUS => i = 1
    /\ \A i, j \in DOMAIN column : (column[i] = DOT /\ column[j] = DOT) => i = j

\* The shortest text that ipaddress.ip_address, ipaddress.ip_network,
\* uuid.UUID or pendulum.from_format accept without a colon in it ("1.1.1.1")
MinLibraryLen == 7

\* One of ip_address, ip_network, UUID and from_format may accept the column
library_may_accept(column) ==
    Len(column) >= MinLibraryLen \/ COLON \in Range(column)

\* _convert_column after the null test: column is the unescaped text
convert_unescaped(column) ==
    IF isnumeric(strip_char(column, MINUS))
    THEN IF int_accepts(column) THEN [t |-> "int", text |-> column]
         ELSE [t |-> "ValueError", text |-> column]
    ELSE IF /\ isnumeric(remove_char(strip_char(column, MINUS), DOT))
            /\ Decimal_accepts(column)
    THEN [t |-> "Decimal", text |-> column]
    ELSE IF library_may_accept(column) THEN [t |-> "library", text |-> column]
    ELSE [t |-> "str", text |-> column]

\* SmartDataConverter._convert_column: what it returns, by type, or the
\* error it raises
SmartDataConverter_convert_column(column) ==
    IF column = <<BACKSLASH, CHAR_N>> THEN [t |-> "None", text |-> <<>>]
    ELSE convert_unescaped(unescape_copy_text(column))

----------------------------------------------------------------------------
(* Reading the spill store: Dump.table_data and Dump.blobs *)

\* The characters str.strip() removes
Whitespace == {9, 10, 11, 12, 13, 28, 29, 30, 31, 32}

RECURSIVE LStrip(_)
LStrip(str) ==
    IF str # <<>> /\ Head(str) \in Whitespace THEN LStrip(Tail(str)) ELSE str

RECURSIVE RStrip(_)
RStrip(str) ==
    IF str # <<>> /\ str[Len(str)] \in Whitespace
    THEN RStrip(SubSeq(str, 1, Len(str) - 1)) ELSE str

Strip(str) == RStrip(LStrip(str))

\* Iterating a binary file handle: the lines, each up to and with its LF
RECURSIVE Lines(_)
Lines(bytes) ==
    IF bytes = <<>> THEN <<>>
    ELSE IF \A i \in DOMAIN bytes : bytes[i] # LF THEN <<bytes>>
    ELSE LET i == CHOOSE i \in DOMAIN bytes :
                      /\ bytes[i] = LF
                      /\ \A j \in 1..(i - 1) : bytes[j] # LF
         IN  <<SubSeq(bytes, 1, i)>> \o Lines(Drop(bytes, i))

\* The loop of Dump._read_table_data: stripped lines up to the first that is
\* empty or starts with backslash-dot
RECURSIVE rows_until_end(_)
rows_until_end(lines) ==
    LET out == Strip(Head(lines))
    IN  IF lines = <<>> THEN <<>>
        ELSE IF out = <<>> \/ (Len(out) >= 2 /\ out[1] = BACKSLASH /\ out[2] = DOT)
        THEN <<>>
        ELSE <<out>> \o rows_until_end(Tail(lines))

\* Dump._read_table_data: no spill file (NoDataError) gives no rows
read_table_data(sp, dump_id) ==
    IF dump_id \notin DOMAIN sp THEN <<>>
    ELSE rows_until_end(Lines(sp[dump_id]))

\* table_data were it to search the entries of every section
table_data_result_any(es, sp, namespace, table) ==
    LET ks == {k \in DOMAIN es :
                  es[k].namespace = namespace /\ es[k].tag = table}
        k0 == CHOOSE k \in ks : \A j \in ks : k <= j
        rows == read_table_data(sp, es[k0].dump_id)
    IN  IF ks = {} THEN [out |-> "EntityNotFoundError", rows |-> <<>>]
        ELSE [out |-> "ok",
              rows |-> [i \in DOMAIN rows |-> DataConverter_convert(rows[i])]]

\* Dump.table_data(namespace, table): the rows of the first data entry with
\* that namespace and tag, or EntityNotFoundError
table_data_result(es, sp, namespace, table) ==
    LET des == data_entries(es)
        ks == {k \in DOMAIN des :
                  des[k].namespace = namespace /\ des[k].tag = table}
        k0 == CHOOSE k \in ks : \A j \in ks : k <= j
        rows == read_table_data(sp, des[k0].dump_id)
    IN  IF ks = {} THEN [out |-> "EntityNotFoundError", rows |-> <<>>]
        ELSE [out |-> "ok",
              rows |-> [i \in DOMAIN rows |-> DataConverter_convert(rows[i])]]

\* Dump.table_data consumed to its end, r being what it yields or raises
table_data_as(namespace, table, r) ==
    /\ last' = [op |-> "table_data", namespace |-> namespace, table |-> table,
                out |-> r.out, rows |-> r.rows]
    /\ UNCHANGED <<entries, writers, spill, file, version, origin, io,
                   appended, saved>>

table_data(namespace, table) ==
    table_data_as(namespace, table,
                  table_data_result(entries, spill, namespace, table))

\* Dump.blobs consumed to its end
blobs_as(r) ==
    /\ last' = [op |-> "blobs", out |-> r.out, pairs |-> r.pairs]
    /\ UNCHANGED <<entries, writers, spill, file, version, origin, io,
                   appended, saved>>

blobs == blobs_as(blobs_result(entries, spill))

----------------------------------------------------------------------------
(* Archives written by other programs (pg_dump): a BLOBS entry with its      *)
(* block, in pg_dump's layout: per blob the oid, the chunks and a 0, then    *)
(* an oid of 0                                                               *)

MaxBlobs == 2       \* blobs in an archive read from outside

Blob(oid, data) == [oid |-> oid, data |-> data]

\* The blob lists of the outside archives of the model
ExternalBlobs ==
    { <<>>,
      <<Blob(5, <<97>>)>>,
      <<Blob(5, <<>>), Blob(6, <<97, 98>>)>>,
      <<Blob(5, <<97>>), Blob(6, <<>>)>> }

pg_dump_blob(b) ==
    <<ItemInt(b.oid)>>
    \o (IF b.data = <<>> THEN <<>> ELSE <<ItemInt(Len(b.data)), ItemRaw(b.data)>>)
    \o <<ItemInt(0)>>

ExternalFile(ver, bs) ==
    LET blobs_entry(offset) ==
            [write_entry(Entry(4, TRUE, "0", "0", BLOBS, BLOBS, "", "", "", "",
                               "", "postgres", FALSE, <<>>, K_OFFSET_POS_SET,
                               0)) EXCEPT !.offset = offset]
        boot == [k \in 1..3 |->
                    write_entry([BootstrapEntries[k] EXCEPT !.owner = "postgres"])]
        toc0 == Append(boot, blobs_entry(0))
    IN  ArchiveFile(ver, 4, Append(boot, blobs_entry(data_start(toc0))),
                    <<ItemByte(BLK_BLOBS), ItemInt(4)>>
                    \o Concat([i \in DOMAIN bs |-> pg_dump_blob(bs[i])])
                    \o <<ItemInt(0)>>)

ExternalFiles ==
    {ExternalFile(MIN_VER, bs) : bs \in {b \in ExternalBlobs : Len(b) <= MaxBlobs}}

\* The header versions of the outside archives of the model
ExternalVersions ==
    { <<0, 13, 0>>, <<1, 11, 9>>, <<1, 12, 5>>, <<1, 13, 0>>, <<1, 13, 1>>,
      <<1, 14, 0>>, <<2, 0, 0>> }

\* Archives that differ from the archive f in one place: the header version;
\* the block-type byte; the dump id of the block header; a file that ends
\* where the block is due; an entry whose data_state is not pos-set; a file
\* that ends inside a chunk declared 3 bytes long
Defects(f) ==
    { [f EXCEPT !.version = v] : v \in ExternalVersions }
    \cup { [f EXCEPT !.data[1] = ItemByte(2)],
           [f EXCEPT !.data[2] = ItemInt(9)],
           [f EXCEPT !.data = <<>>],
           [f EXCEPT !.toc[4].data_state = K_OFFSET_POS_NOT_SET],
           [f EXCEPT !.toc[4].data_state = K_OFFSET_NO_DATA],
           [f EXCEPT !.data = <<ItemByte(BLK_BLOBS), ItemInt(4), ItemInt(5),
                                ItemInt(3), ItemRaw(<<97>>)>>] }

DefectFiles == Defects(ExternalFile(MIN_VER, <<Blob(5, <<97>>)>>))

\* An archive as pg_dump writes it when it writes no SEARCHPATH entry: the
\* third entry of the archive f is a SCHEMA
SchemaThird(f) ==
    LET toc == [f.toc EXCEPT ![3] =
                   write_entry(Entry(3, FALSE, "0", "0", "public", "SCHEMA",
                                     "CREATE SCHEMA public;\n", "", "", "", "",
                                     "postgres", FALSE, <<>>,
                                     K_OFFSET_NO_DATA, 0))]
    IN  [f EXCEPT !.toc = [toc EXCEPT ![4].offset = data_start(toc)]]

EarlyFiles == {SchemaThird(ExternalFile(MIN_VER, <<Blob(5, <<97>>)>>))}

----------------------------------------------------------------------------
(* The calls the model makes *)

None == <<>>

\* add_entry(desc, namespace, tag, dependencies, dump_id)
AddCalls ==
    { <<"TABLE", "public", "t1", <<>>, None>>,
      <<"TABLE", "public", "t1", <<4>>, None>>,
      <<"INDEX", "public", "i1", <<>>, None>>,
      <<"TRIGGER", "public", "g1", <<>>, None>>,
      <<"COMMENT", "", "c1", <<4>>, None>>,
      <<"TABLE", "public", "t2", <<>>, <<7>>>>,
      <<"TABLE", "public", "t2", <<>>, <<0>>>>,
      <<"TABLE", "public", "t2", <<4, 9>>, <<3>>>>,
      <<"foo", "", "x", <<9>>, None>>,
      <<"TABLE DATA", "public", "t1", <<>>, None>> }

\* The rows appended: fields are None or text
Rows ==
    { << <<97>>, NULL >>,
      << <<>> >> }

\* The (namespace, table) pairs asked of table_data
Queries == { <<"public", "t1">>, <<"public", "foo">> }

NoSave ==
    [ok |-> FALSE, by |-> "none", entries |-> <<>>, appended |-> <<>>,
     blobs |-> [out |-> "ok", pairs |-> <<>>]]

----------------------------------------------------------------------------
(* The state machine: one archive object in use, and the archive file *)

\* pgdumplib.new()
New ==
    /\ entries = BootstrapEntries
    /\ spill = <<>>
    /\ version = MIN_VER
    /\ origin = "new"
    /\ last = [op |-> "new", out |-> "ok", appear_as |-> "omitted"]

\* The Postgres versions that constructions name as appear_as
AppearAs == {"8.4.0", "9.6.4", "10.1", "10.3", "11.0", "12.0", "100.0"}

\* Dump(appear_as=...): __init__ takes dbname, encoding and converter only,
\* so the call raises TypeError and no archive is constructed
NewAs(appear_as) ==
    /\ entries = <<>>
    /\ spill = <<>>
    /\ version = MIN_VER
    /\ origin = "failed"
    /\ last = [op |-> "new", out |-> "TypeError", appear_as |-> appear_as]

\* pgdumplib.load(path) of an archive written by pg_dump, r being what load
\* does
LoadedAs(r) ==
    /\ entries = r.es
    /\ spill = r.sp
    /\ version = r.version
    /\ origin = IF r.err = "ok" THEN "loaded" ELSE "failed"
    /\ last = [op |-> "load", out |-> r.err, own |-> FALSE]

Loaded(f) == LoadedAs(load_result(f)) /\ file = f

Init ==
    /\ \/ New /\ file = NoFile
       \/ \E appear_as \in AppearAs : NewAs(appear_as) /\ file = NoFile
       \/ \E f \in ExternalFiles \cup DefectFiles \cup EarlyFiles : Loaded(f)
    /\ writers = <<>>
    /\ io = 0
    /\ appended = <<>>
    /\ saved = NoSave

AddEntry ==
    /\ origin # "failed"
    /\ \E c \in AddCalls : add_entry(c[1], c[2], c[3], c[4], c[5])

TableDataWriter ==
    /\ origin # "failed"
    /\ \E i \in DOMAIN entries :
          entries[i].desc = "TABLE" /\ table_data_writer(i)

AppendRow ==
    /\ origin # "failed"
    /\ \E k \in DOMAIN writers : \E args \in Rows : append(k, args)

Save ==
    /\ origin # "failed"
    /\ save

Load == load_file(file)

DumpLoad ==
    /\ origin # "failed"
    /\ dump_load_as(load_result(file))

TableDataQuery ==
    /\ origin # "failed"
    /\ \E q \in Queries : table_data(q[1], q[2])

BlobsQuery ==
    /\ origin # "failed"
    /\ blobs

Next ==
    \/ AddEntry
    \/ TableDataWriter
    \/ AppendRow
    \/ Save
    \/ Load
    \/ DumpLoad
    \/ TableDataQuery
    \/ BlobsQuery

Spec == Init /\ [][Next]_vars

----------------------------------------------------------------------------
(* reader.py: Dump._read_entry_data on a handle with `bytes` ahead.  Results *)
(* carry the error raised (err, "ok" when none) and the bytes left ahead.    *)

\* _read_int(handle, intsize): _read_byte raises struct.error at the end of
\* the file
reader_read_int(bytes) ==
    IF Len(bytes) < 1 + intsize
    THEN [err |-> "struct.error", v |-> 0, rest |-> <<>>]
    ELSE [err |-> "ok", v |-> read_int_from(bytes, intsize).v,
          rest |-> Drop(bytes, 1 + intsize)]

\* Dump._read_block_header: handle.read(1), which is empty at the end of the
\* file (type -1 here), and then _read_int
read_block_header(bytes) ==
    [err |-> reader_read_int(Drop(bytes, 1)).err,
     type |-> IF bytes = <<>> THEN -1 ELSE Head(bytes),
     dump_id |-> reader_read_int(Drop(bytes, 1)).v,
     rest |-> reader_read_int(Drop(bytes, 1)).rest]

\* The loop of _skip_data, n being the outcome of the _read_int before it:
\* handle.read(length) reads to the end of the file for a negative length
RECURSIVE skip_chunks(_)
skip_chunks(n) ==
    IF n.err # "ok" \/ n.v = 0 THEN [err |-> n.err, rest |-> n.rest]
    ELSE IF n.v < 0 \/ Len(n.rest) < n.v
    THEN [err |-> "ValueError", rest |-> <<>>]
    ELSE skip_chunks(reader_read_int(Drop(n.rest, n.v)))

\* _skip_data
skip_data(bytes) == skip_chunks(reader_read_int(bytes))

\* The loop of _read_entry_data for pos-not-set, h being the block header
\* read before the test of the loop; a block type is never equal to
\* constants.EOF, which is an int
RECURSIVE scan_forward(_, _)
scan_forward(h, dump_id) ==
    IF h.err # "ok" \/ h.dump_id = dump_id THEN h
    ELSE IF h.type \in {BLK_DATA, BLK_BLOBS}
    THEN IF skip_data(h.rest).err # "ok"
         THEN [h EXCEPT !.err = skip_data(h.rest).err]
         ELSE scan_forward(read_block_header(skip_data(h.rest).rest), dump_id)
    ELSE scan_forward(read_block_header(h.rest), dump_id)

\* The loop over the chunks of a BLK_DATA block: the rows yielded and the
\* error that ends the iteration
RECURSIVE read_chunks(_)
read_chunks(n) ==
    LET data == IF n.v < 0 THEN n.rest ELSE ReadN(n.rest, n.v)
        text == SubSeq(data, 1, Len(data) - 1)
        more == read_chunks(reader_read_int(Drop(n.rest, Len(data))))
    IN  IF n.err # "ok" \/ n.v = 0 THEN [out |-> n.err, rows |-> <<>>]
        ELSE IF Len(text) >= 2 /\ SubSeq(text, 1, 2) = <<BACKSLASH, DOT>>
        THEN [out |-> "ok", rows |-> <<>>]
        ELSE [out |-> more.out, rows |-> <<Split(text, TAB)>> \o more.rows]

\* _read_entry_data from the second _read_block_header on, h being its
\* outcome
read_block(h, dump_id) ==
    IF h.err # "ok" THEN [out |-> h.err, rows |-> <<>>]
    ELSE IF h.dump_id # dump_id
    THEN [out |-> "ValueError: Dump IDs do not match", rows |-> <<>>]
    ELSE IF h.type # BLK_DATA
    THEN [out |-> "ValueError: Unsupported block type", rows |-> <<>>]
    ELSE read_chunks(reader_read_int(h.rest))

\* Dump._read_entry_data(entry, handle), the handle being at the start of
\* the data region `bytes`; entry.offset counts from there
read_entry_data(entry, bytes) ==
    IF entry.data_state = K_OFFSET_NO_DATA THEN [out |-> "ok", rows |-> <<>>]
    ELSE IF entry.data_state = K_OFFSET_POS_NOT_SET
    THEN IF scan_forward(read_block_header(bytes), entry.dump_id).err # "ok"
         THEN [out |-> scan_forward(read_block_header(bytes),
                                    entry.dump_id).err,
               rows |-> <<>>]
         ELSE read_block(read_block_header(
                            scan_forward(read_block_header(bytes),
                                         entry.dump_id).rest),
                         entry.dump_id)
    ELSE read_block(read_block_header(Drop(bytes, entry.offset)),
                    entry.dump_id)

----------------------------------------------------------------------------
(* The converters and the codec on their own: one call, on arguments drawn  *)
(* from the sets below, with the arguments and what the call returns in      *)
(* `last`                                                                    *)

MaxField == 5       \* characters in a field given to unescape_copy_text
MaxRowLen == 6      \* characters in a row given to DataConverter.convert
MaxColumn == 4      \* characters in a column given to the smart converter
MaxIntSize == 2     \* bytes of an int or of an offset
MaxSmall == 260     \* the codec is given every value up to this one

\* The texts of at most n characters over an alphabet
Strings(alphabet, n) == UNION {[1..k -> alphabet] : k \in 0..n}

\* backslash, 1, 7, 8, x, a, n, N
FieldChars == {BACKSLASH, 49, 55, 56, 120, 97, 110, CHAR_N}

\* TAB, backslash, N, a
RowChars == {TAB, BACKSLASH, CHAR_N, 97}

\* -, 5, ., 2, 6, a, backslash, N
ColumnChars == {MINUS, 53, DOT, 50, 54, 97, BACKSLASH, CHAR_N}

\* The values given to the codec for ints of `size` bytes: the small ones
\* and those around 2^(8 * size), of either sign
CodecValues(size) ==
    (-MaxSmall..MaxSmall)
    \cup {Pow256(size) - 2, Pow256(size) - 1, Pow256(size)}
    \cup {-Pow256(size), 1 - Pow256(size), 2 - Pow256(size)}

MaxBlocks == 2      \* blocks in a data region given to the reader

\* The blocks of the data regions: a type, the bytes after the block header
\* and the rows the block holds.  Tables of no, one and two rows, in chunks
\* of one row each with a length of 0 after the last, and a block of one blob
BlockBodies ==
    { [type |-> BLK_DATA, body |-> write_int(0, intsize), rows |-> <<>>],
      [type |-> BLK_DATA,
       body |-> write_int(2, intsize) \o <<97, LF>> \o write_int(0, intsize),
       rows |-> << <<<<97>>>> >>],
      [type |-> BLK_DATA,
       body |-> write_int(4, intsize) \o <<97, TAB, 98, LF>>
                \o write_int(2, intsize) \o <<99, LF>>
                \o write_int(0, intsize),
       rows |-> << <<<<97>>, <<98>>>>, <<<<99>>>> >>],
      [type |-> BLK_BLOBS,
       body |-> write_int(5, intsize) \o write_int(1, intsize) \o <<97>>
                \o write_int(0, intsize) \o write_int(0, intsize),
       rows |-> <<>>] }

\* The dump ids of the blocks, and those of the entries read
BlockIds == {4, 5, 6}
EntryIds == BlockIds \cup {7}

\* Data regions: up to MaxBlocks blocks with different dump ids
Regions ==
    {r \in UNION {[1..n -> [dump_id : BlockIds, b : BlockBodies]] :
                     n \in 1..MaxBlocks} :
        \A i, j \in DOMAIN r : r[i].dump_id = r[j].dump_id => i = j}

BlockBytes(blk) == <<blk.b.type>> \o write_int(blk.dump_id, intsize) \o blk.b.body

RegionBytes(r) == Concat([k \in DOMAIN r |-> BlockBytes(r[k])])

\* Where the block of the dump id starts in the region, 0 when it has none
OffsetIn(r, dump_id) ==
    LET ks == {k \in DOMAIN r : r[k].dump_id = dump_id}
    IN  IF ks = {} THEN 0
        ELSE Len(RegionBytes(SubSeq(r, 1, (CHOOSE k \in ks : TRUE) - 1)))

\* The numbers of bytes missing at the end of a file
Cuts == {0, 1, 6, 8}

PureInit ==
    /\ entries = <<>> /\ writers = <<>> /\ spill = <<>> /\ file = NoFile
    /\ version = MIN_VER /\ origin = "none" /\ io = 0 /\ appended = <<>>
    /\ saved = NoSave
    /\ last = [op |-> "none"]

\* One call is made in a behaviour
Called ==
    /\ io = 0 /\ io' = 1
    /\ UNCHANGED <<entries, writers, spill, file, version, origin, appended,
                   saved>>

UnescapeCall ==
    /\ Called
    /\ \E field \in Strings(FieldChars, MaxField) :
          last' = [op |-> "unescape_copy_text", field |-> field,
                   out |-> unescape_copy_text(field)]

ConvertCall ==
    /\ Called
    /\ \E row \in Strings(RowChars, MaxRowLen) :
          last' = [op |-> "convert", row |-> row,
                   out |-> DataConverter_convert(row)]

SmartConvertCall ==
    /\ Called
    /\ \E column \in Strings(ColumnChars, MaxColumn) :
          last' = [op |-> "convert_column", column |-> column,
                   out |-> SmartDataConverter_convert_column(column)]

\* _write_int, then _read_int on what was written and one more byte
IntCall ==
    /\ Called
    /\ \E size \in 1..MaxIntSize : \E value \in CodecValues(size) :
       \E next \in {0, 255} :
          last' = [op |-> "int", size |-> size, value |-> value,
                   next |-> next, bytes |-> write_int(value, size),
                   read |-> read_int_from(write_int(value, size)
                                              \o <<next>>, size)]

\* _write_offset, then _read_offset on what was written and one more byte
OffsetCall ==
    /\ Called
    /\ \E size \in 1..MaxIntSize : \E value \in CodecValues(size) :
       \E data_state \in {K_OFFSET_POS_NOT_SET, K_OFFSET_POS_SET,
                          K_OFFSET_NO_DATA} :
       \E next \in {0, 255} :
          /\ value >= 0
          /\ last' = [op |-> "offset", size |-> size, value |-> value,
                      data_state |-> data_state, next |-> next,
                      bytes |-> write_offset(value, data_state, size),
                      read |-> read_offset(
                                  write_offset(value, data_state, size)
                                      \o <<next>>, size)]

\* reader.Dump._read_entry_data for an entry, on a data region
ReadEntryDataCall ==
    /\ Called
    /\ \E r \in Regions : \E cut \in Cuts : \E dump_id \in EntryIds :
       \E data_state \in {K_OFFSET_POS_NOT_SET, K_OFFSET_POS_SET,
                          K_OFFSET_NO_DATA} :
          last' = [op |-> "read_entry_data", blocks |-> r, cut |-> cut,
                   dump_id |-> dump_id, data_state |-> data_state,
                   out |-> read_entry_data(
                              [dump_id |-> dump_id, data_state |-> data_state,
                               offset |-> OffsetIn(r, dump_id)],
                              SubSeq(RegionBytes(r), 1,
                                     Len(RegionBytes(r)) - cut))]

PureNext ==
    \/ ReadEntryDataCall
    \/ UnescapeCall
    \/ ConvertCall
    \/ SmartConvertCall
    \/ IntCall
    \/ OffsetCall

PureSpec == PureInit /\ [][PureNext]_vars

----------------------------------------------------------------------------
(* Properties: round trips through save and load *)

\* A step that is a call of save, and one that is a call of load on the file
\* save wrote
SaveStep == io' = io + 1 /\ last'.op = "save"

OwnLoadStep == io' = io + 1 /\ last'.op = "load" /\ last'.own

\* An entry without its offset
NoOffset(e) == [e EXCEPT !.offset = 0]

\* C1 -- Table-row fidelity: when an archive authored from new() has been
\* saved and the file is loaded, then for every row-append handle of the
\* authored archive, with the k >= 0 rows appended through it, table_data of
\* the table's namespace and tag on the loaded archive yields exactly those
\* rows, in append order, field for field (None stays None).
C1_TableRowFidelity ==
    [][(OwnLoadStep /\ saved.ok /\ saved.by = "new") =>
        /\ origin' = "loaded"
        /\ \A d \in DOMAIN saved.appended :
              table_data_result(entries', spill',
                                get_entry(saved.entries, d).namespace,
                                get_entry(saved.entries, d).tag)
                  = [out |-> "ok", rows |-> saved.appended[d]]]_vars

\* C2 -- Entry round-trip: when an archive authored from new() with
\* add_entry and table_data_writer has been saved and the file is loaded,
\* the loaded archive has the same set of dump_ids, and each of its entries
\* equals the authored entry with the same dump_id on every field except
\* offset.
C2_EntryRoundTrip ==
    [][(OwnLoadStep /\ saved.ok /\ saved.by = "new") =>
        /\ origin' = "loaded"
        /\ dump_ids(entries') = dump_ids(saved.entries)
        /\ \A i \in DOMAIN entries' : \A j \in DOMAIN saved.entries :
              entries'[i].dump_id = saved.entries[j].dump_id =>
                  NoOffset(entries'[i]) = NoOffset(saved.entries[j])]_vars

\* C3 -- Blob fidelity: an archive whose BLOBS entries hold k >= 0 blobs can
\* be saved, and loading the saved file yields an archive whose blobs()
\* returns the same (oid, bytes) pairs in the same order, blobs of length 0
\* included.
C3_BlobFidelity ==
    [][/\ (/\ SaveStep
           /\ \E i \in DOMAIN entries : entries[i].desc = BLOBS
           /\ blobs_result(entries, spill).out = "ok")
          => last'.out = "ok"
       /\ (/\ OwnLoadStep /\ saved.ok
           /\ \E j \in DOMAIN saved.entries : saved.entries[j].desc = BLOBS
           /\ saved.blobs.out = "ok")
          => /\ origin' = "loaded"
             /\ blobs_result(entries', spill') = saved.blobs]_vars

----------------------------------------------------------------------------
(* Properties: the order of the table of contents save writes *)

\* The place of a descriptor's section in the order of the write
SectionRank(desc) ==
    IndexOf(<<SECTION_PRE_DATA, SECTION_DATA, SECTION_POST_DATA, SECTION_NONE>>,
            SECTION_MAPPING[desc])

\* The preferred list of a descriptor's section
PreferredOf(desc) ==
    IF SECTION_MAPPING[desc] = SECTION_PRE_DATA THEN PRE_DATA_TYPES
    ELSE IF SECTION_MAPPING[desc] = SECTION_POST_DATA THEN POST_DATA_TYPES
    ELSE <<>>

IsPreferred(desc) == desc \in Range(PreferredOf(desc))

\* C4 -- Section order on write: the table of contents save wrote starts
\* with ENCODING, STDSTRINGS, SEARCHPATH in that order, and after them no
\* entry of a later section (Pre-Data, Data, Post-Data, None in that order)
\* comes before an entry of an earlier section, whatever the dependencies.
C4_SectionOrder ==
    (file.exists /\ saved.ok) =>
        /\ Len(file.toc) >= 3
        /\ file.toc[1].desc = ENCODING
        /\ file.toc[2].desc = "STDSTRINGS"
        /\ file.toc[3].desc = "SEARCHPATH"
        /\ \A i, j \in 4..Len(file.toc) :
              i < j => SectionRank(file.toc[i].desc)
                          <= SectionRank(file.toc[j].desc)

\* C5 -- Order within a section on write: in the table of contents save
\* wrote, after the bootstrap entries, among the entries of one section
\* those with a preferred descriptor come first, in the order of the
\* preferred list, and every other entry comes after each entry it depends
\* on.
C5_OrderWithinSection ==
    (file.exists /\ saved.ok) =>
        /\ \A i, j \in 4..Len(file.toc) :
              (i < j /\ SectionRank(file.toc[i].desc)
                            = SectionRank(file.toc[j].desc)) =>
                  /\ IsPreferred(file.toc[j].desc)
                        => IsPreferred(file.toc[i].desc)
                  /\ (IsPreferred(file.toc[i].desc)
                      /\ IsPreferred(file.toc[j].desc))
                        => IndexOf(PreferredOf(file.toc[i].desc),
                                   file.toc[i].desc)
                           <= IndexOf(PreferredOf(file.toc[j].desc),
                                      file.toc[j].desc)
        /\ \A j \in 4..Len(file.toc) :
              ~IsPreferred(file.toc[j].desc) =>
                  \A d \in DOMAIN file.toc[j].dependencies :
                      \E i \in 1..(j - 1) :
                          file.toc[i].dump_id
                              = IntOfStr(file.toc[j].dependencies[d])

----------------------------------------------------------------------------
(* Properties: the authoring calls *)

\* C6 -- dump_id uniqueness: on an archive created by new(), after every
\* add_entry (with or without an explicit dump_id) and every
\* table_data_writer call no two entries share a dump_id, and an id the call
\* assigned itself is the largest dump_id in use before the call plus one,
\* so never an id in use.
C6_DumpIdUniqueness ==
    [][(origin = "new" /\ last'.op \in {"add_entry", "table_data_writer"}) =>
        /\ \A i, j \in DOMAIN entries' :
              entries'[i].dump_id = entries'[j].dump_id => i = j
        /\ (/\ Len(entries') = Len(entries) + 1
            /\ \/ last'.op = "table_data_writer"
               \/ last'.dump_id = None)
           => /\ entries'[Len(entries')].dump_id
                    = MaxOf(dump_ids(entries)) + 1
              /\ entries'[Len(entries')].dump_id \notin dump_ids(entries)]_vars

\* An id was assigned by add_entry after an entry took the explicit id 7
C6_Witness ==
    /\ origin = "new"
    /\ last.op = "add_entry" /\ last.out = "ok" /\ last.dump_id = None
    /\ entries[Len(entries)].dump_id = 8

\* C7 (as claimed) -- Dependency validation: add_entry raises the
\* unknown-dependency error if and only if at least one listed dependency id
\* is not the dump_id of an entry present in entries at call time.
C7_DependencyValidation ==
    [][last'.op = "add_entry" =>
        ((last'.out = "UnknownDependency")
         <=> (\E k \in DOMAIN last'.dependencies :
                 last'.dependencies[k] \notin dump_ids(entries)))]_vars

\* C7 (amended) -- add_entry raises the unknown-dependency error if and only
\* if desc is a known descriptor, the explicit dump_id (when given) is at
\* least 1 and not in use, and at least one listed dependency id is not the
\* dump_id of an entry present at call time; a call that lists such a
\* dependency never succeeds and adds no entry, so the dependencies of an
\* added entry are ids of entries that were there before it.
C7_DependencyValidationAmended ==
    [][last'.op = "add_entry" =>
        /\ (last'.out = "UnknownDependency")
           <=> (/\ last'.desc \in DOMAIN SECTION_MAPPING
                /\ \/ last'.dump_id = None
                   \/ /\ last'.dump_id[1] >= 1
                      /\ last'.dump_id[1] \notin dump_ids(entries)
                /\ \E k \in DOMAIN last'.dependencies :
                      last'.dependencies[k] \notin dump_ids(entries))
        /\ (\E k \in DOMAIN last'.dependencies :
               last'.dependencies[k] \notin dump_ids(entries))
           => (last'.out # "ok" /\ entries' = entries)
        /\ last'.out = "ok"
           => /\ Len(entries') = Len(entries) + 1
              /\ Range(entries'[Len(entries')].dependencies)
                    \subseteq dump_ids(entries)
              /\ entries'[Len(entries')].dump_id
                    \notin Range(entries'[Len(entries')].dependencies)]_vars

\* add_entry has raised the unknown-dependency error
C7_Witness ==
    /\ last.op = "add_entry" /\ last.out = "UnknownDependency"
    /\ last.dependencies = <<4>>

\* C8 -- Rejected add_entry does not mutate: add_entry called with an unknown
\* desc, with an explicit dump_id <= 0, with an explicit dump_id in use, or
\* with an unknown dependency fails with an error and leaves the entry list
\* as it was.
C8_RejectedAddEntry ==
    [][(/\ last'.op = "add_entry"
        /\ \/ last'.desc \notin DOMAIN SECTION_MAPPING
           \/ last'.dump_id # None /\ last'.dump_id[1] <= 0
           \/ last'.dump_id # None /\ last'.dump_id[1] \in dump_ids(entries)
           \/ \E k \in DOMAIN last'.dependencies :
                 last'.dependencies[k] \notin dump_ids(entries))
       => (last'.out # "ok" /\ entries' = entries)]_vars

\* add_entry has been rejected on an archive that holds added entries
C8_Witness ==
    /\ last.op = "add_entry" /\ last.out # "ok"
    /\ Len(entries) = 5

\* The bytes a handle holds after the rows were appended
RowBytes(rows) == Concat([i \in DOMAIN rows |-> append_bytes(rows[i])])

\* C9 -- table_data_writer is idempotent per table entry: the first
\* acquisition for a table entry appends exactly one TABLE DATA entry, with
\* a dump_id not in use and dependencies = [entry.dump_id], and opens a
\* new, empty spill file; a later acquisition for the same table entry
\* appends no entry and returns the same handle; and what a handle holds is
\* the rows appended through it, in append order.
C9_TableDataWriterIdempotent ==
    [][/\ last'.op = "table_data_writer" =>
            IF \E k \in DOMAIN writers : writers[k].table = last'.table
            THEN /\ entries' = entries /\ writers' = writers /\ spill' = spill
                 /\ \E k \in DOMAIN writers :
                       /\ writers[k].table = last'.table
                       /\ writers[k].dump_id = last'.handle
            ELSE /\ Len(entries') = Len(entries) + 1
                 /\ SubSeq(entries', 1, Len(entries)) = entries
                 /\ entries'[Len(entries')].desc = TABLE_DATA
                 /\ entries'[Len(entries')].dump_id \notin dump_ids(entries)
                 /\ entries'[Len(entries')].dump_id \notin DOMAIN spill
                 /\ entries'[Len(entries')].dependencies = <<last'.table>>
                 /\ last'.handle = entries'[Len(entries')].dump_id
                 /\ spill'[last'.handle] = <<>>
                 /\ writers' = Append(writers,
                        [table |-> last'.table, dump_id |-> last'.handle,
                         mode |-> "wb", data |-> <<>>])
       /\ \A k \in DOMAIN writers' :
             writers'[k].data = RowBytes(appended'[writers'[k].dump_id])]_vars

\* A handle was acquired again after two rows were appended through it
C9_Witness ==
    /\ last.op = "table_data_writer"
    /\ Len(appended[last.handle]) = 2

\* C10 -- table_data(namespace, tag) raises EntityNotFound if and only if no
\* Data-section entry has that namespace and tag; when the first matching
\* entry has no rows it yields the empty sequence without error; the call
\* changes nothing, and a new call yields the same rows from the first on.
C10_TableDataLookup ==
    [][last'.op = "table_data" =>
        LET m == {i \in DOMAIN entries :
                     /\ SECTION_MAPPING[entries[i].desc] = SECTION_DATA
                     /\ entries[i].namespace = last'.namespace
                     /\ entries[i].tag = last'.table}
            first == entries[CHOOSE i \in m : \A j \in m : i <= j]
        IN  /\ (last'.out = "EntityNotFoundError") <=> (m = {})
            /\ m # {} => last'.out = "ok"
            /\ (/\ m # {}
                /\ \/ first.dump_id \notin DOMAIN spill
                   \/ spill[first.dump_id] = <<>>)
               => last'.rows = <<>>
            /\ (/\ last.op = "table_data"
                /\ last.namespace = last'.namespace
                /\ last.table = last'.table)
               => last'.rows = last.rows
            /\ UNCHANGED <<entries, writers, spill>>]_vars

\* table_data has yielded the rows of a table
C10_Witness ==
    /\ last.op = "table_data" /\ last.out = "ok"
    /\ Len(last.rows) = 2

----------------------------------------------------------------------------
(* Properties: the reader *)

\* A version as one number, its parts being bytes
VersionNumber(v) == 65536 * v[1] + 256 * v[2] + v[3]

\* The header of the file passes load's checks of the magic and the version
HeaderAccepted(f) ==
    /\ f.exists /\ f.magic = "PGDMP"
    /\ VersionNumber(MIN_VER) <= VersionNumber(f.version)
    /\ VersionNumber(f.version) <= VersionNumber(MAX_VER)

\* The entry of the file's data section has data, and either its data_state
\* is not pos-set, or no block header with its dump id is at its offset, or
\* the block-type byte there is neither BLK_DATA nor BLK_BLOBS
BlockDefect(f, e) ==
    /\ e.data_state # K_OFFSET_NO_DATA
    /\ \/ e.data_state # K_OFFSET_POS_SET
       \/ item_at(f, e.offset) = 0
       \/ item_at(f, e.offset) >= Len(f.data)
       \/ f.data[item_at(f, e.offset)].k # "byte"
       \/ f.data[item_at(f, e.offset) + 1].k # "int"
       \/ f.data[item_at(f, e.offset) + 1].v # e.dump_id
       \/ f.data[item_at(f, e.offset)].v \notin {BLK_DATA, BLK_BLOBS}

\* C11 -- Load validates every data block it locates: when the header of
\* the file is accepted and a Data-section entry whose data_state is not
\* no-data has a data_state other than pos-set, or a block header at its
\* offset with another dump id or none, or a block-type byte that is neither
\* BLK_DATA nor BLK_BLOBS, load fails with an error; an entry whose
\* data_state is no-data is skipped: it gets no spill file and does not make
\* load fail.
C11_LoadValidatesBlocks ==
    [][(last'.op = "load" /\ HeaderAccepted(file)) =>
        /\ (\E i \in DOMAIN data_entries(read_entries(file)) :
               BlockDefect(file, data_entries(read_entries(file))[i]))
           => (last'.out # "ok" /\ origin' = "failed")
        /\ \A i \in DOMAIN data_entries(read_entries(file)) :
              (/\ data_entries(read_entries(file))[i].data_state
                     = K_OFFSET_NO_DATA
               /\ last'.out = "ok")
              => data_entries(read_entries(file))[i].dump_id
                    \notin DOMAIN spill'
        /\ (\A i \in DOMAIN data_entries(read_entries(file)) :
               data_entries(read_entries(file))[i].data_state
                  = K_OFFSET_NO_DATA)
           => (last'.out = "ok" /\ spill' = <<>>)]_vars

\* load has failed on a block whose type byte it does not know
C11_Witness ==
    /\ io >= 1 /\ last.op = "load"
    /\ last.out = "RuntimeError: Unknown block type"

\* A chunk of the file's data region declares more bytes than the file holds
ShortChunk(f) ==
    \E k \in 2..Len(f.data) :
        /\ f.data[k].k = "raw" /\ f.data[k - 1].k = "int"
        /\ Len(f.data[k].v) < f.data[k - 1].v

\* C12 -- All reader failures abort the current load: when a data block of
\* the file declares a chunk length larger than the bytes that remain in the
\* file, load fails with an error and does not return with the data of the
\* entry cut short.
C12_ReaderFailuresAbort ==
    [][(last'.op = "load" /\ HeaderAccepted(file) /\ ShortChunk(file))
       => (last'.out # "ok" /\ origin' = "failed")]_vars

----------------------------------------------------------------------------
(* Properties: the spill store *)

\* C13 -- A missing spill file is recovered as 'no data': blobs() never
\* raises NoData, and yields no pair when no BLOBS entry has a spill file;
\* table_data never raises NoData, and yields no row when the spill file of
\* the entry it reads does not exist.
C13_MissingSpillIsNoData ==
    [][/\ last'.op = "blobs" =>
            /\ last'.out = "ok"
            /\ (\A i \in DOMAIN entries :
                   entries[i].desc = BLOBS
                       => entries[i].dump_id \notin DOMAIN spill)
               => last'.pairs = <<>>
       /\ last'.op = "table_data" =>
            /\ last'.out # "NoDataError"
            /\ \A i \in DOMAIN entries :
                  (/\ SECTION_MAPPING[entries[i].desc] = SECTION_DATA
                   /\ entries[i].namespace = last'.namespace
                   /\ entries[i].tag = last'.table
                   /\ \A j \in 1..(i - 1) :
                         ~(/\ SECTION_MAPPING[entries[j].desc] = SECTION_DATA
                           /\ entries[j].namespace = last'.namespace
                           /\ entries[j].tag = last'.table)
                   /\ entries[i].dump_id \notin DOMAIN spill)
                  => (last'.out = "ok" /\ last'.rows = <<>>)]_vars

----------------------------------------------------------------------------
(* Properties: the version gate *)

\* C14 -- Version gate: load of a file with the right magic fails with the
\* unsupported-version error if and only if the header version is not
\* between MIN_VER and MAX_VER, both included, compared as tuples; and the
\* file written by save of an archive created by new() passes the gate.
C14_VersionGate ==
    [][/\ (last'.op = "load" /\ file.exists /\ file.magic = "PGDMP") =>
            ((last'.out = "ValueError: Unsupported backup version")
             <=> ~(/\ VersionNumber(MIN_VER) <= VersionNumber(file.version)
                   /\ VersionNumber(file.version) <= VersionNumber(MAX_VER)))
       /\ (OwnLoadStep /\ saved.by = "new") =>
            last'.out # "ValueError: Unsupported backup version"]_vars

\* load has accepted a file whose header version is MAX_VER
C14_Witness ==
    /\ io >= 1 /\ last.op = "load" /\ last.out = "ok"
    /\ file.version = MAX_VER /\ version = MAX_VER

----------------------------------------------------------------------------
(* Properties: the order in which entries are enumerated *)

\* The dump ids of a list of entries, in the order of the list
IdsInOrder(es) == [i \in DOMAIN es |-> es[i].dump_id]

\* C15 -- Enumeration order of entries: a loaded archive enumerates its
\* entries in file order; add_entry and table_data_writer put the new entry
\* after the entries there are, leaving those in their order; and once save
\* has returned, the archive enumerates its entries in the order in which
\* save wrote them to the table of contents.
C15_EnumerationOrder ==
    [][/\ (last'.op = "load" /\ last'.out = "ok")
          => IdsInOrder(entries') = IdsInOrder(file.toc)
       /\ (last'.op \in {"add_entry", "table_data_writer"}
           /\ entries' # entries)
          => SubSeq(entries', 1, Len(entries)) = entries
       /\ (SaveStep /\ last'.out = "ok")
          => IdsInOrder(entries') = IdsInOrder(file'.toc)]_vars

----------------------------------------------------------------------------
(* Properties: the converters *)

\* The positions of the TABs of a row, and the k-th of them
TabsOf(row) == {i \in DOMAIN row : row[i] = TAB}

NthTab(row, k) ==
    CHOOSE i \in TabsOf(row) : Cardinality({j \in TabsOf(row) : j <= i}) = k

\* The k-th TAB-separated field of a row
FieldOf(row, k) ==
    SubSeq(row,
           IF k = 1 THEN 1 ELSE NthTab(row, k - 1) + 1,
           IF k = Cardinality(TabsOf(row)) + 1 THEN Len(row)
           ELSE NthTab(row, k) - 1)

\* C16 -- Default converter: DataConverter.convert returns one value per
\* TAB-separated field of the row (number of TABs + 1 values); a value is
\* null exactly when its field is the two characters backslash-N, the test
\* being made before unescaping, so that the field backslash-backslash-N
\* gives the string backslash-N; every other field is returned unescaped.
C16_DefaultConverter ==
    last.op = "convert" =>
        /\ Len(last.out) = Cardinality(TabsOf(last.row)) + 1
        /\ \A k \in DOMAIN last.out :
              /\ (last.out[k] = NULL)
                 <=> (FieldOf(last.row, k) = <<BACKSLASH, CHAR_N>>)
              /\ FieldOf(last.row, k) # <<BACKSLASH, CHAR_N>>
                 => last.out[k] = unescape_copy_text(FieldOf(last.row, k))
        /\ \A k \in DOMAIN last.out :
              FieldOf(last.row, k) = <<BACKSLASH, BACKSLASH, CHAR_N>>
                 => last.out[k] = <<BACKSLASH, CHAR_N>>

\* A row of a null field and the field backslash-backslash-N was converted
C16_Witness ==
    /\ last.op = "convert"
    /\ last.row = <<BACKSLASH, CHAR_N, TAB, BACKSLASH, BACKSLASH, CHAR_N>>
    /\ last.out = <<NULL, <<BACKSLASH, CHAR_N>>>>

\* The reference decoding of COPY text.  RefOctal and RefHex: how many of
\* the characters from position i on, at most `most`, are octal or
\* hexadecimal digits, and the value of the first n of them
RefIsOctal(c) == c >= 48 /\ c <= 55

RefIsHex(c) ==
    \/ c >= 48 /\ c <= 57
    \/ c >= 97 /\ c <= 102
    \/ c >= 65 /\ c <= 70

RefDigit(c) ==
    IF c <= 57 THEN c - 48 ELSE IF c >= 97 THEN c - 97 + 10 ELSE c - 65 + 10

RefOctalRun(s, i, most) ==
    CHOOSE n \in 0..most :
        /\ \A j \in i..(i + n - 1) : j <= Len(s) /\ RefIsOctal(s[j])
        /\ n = most \/ i + n > Len(s) \/ ~RefIsOctal(s[i + n])

RefHexRun(s, i, most) ==
    CHOOSE n \in 0..most :
        /\ \A j \in i..(i + n - 1) : j <= Len(s) /\ RefIsHex(s[j])
        /\ n = most \/ i + n > Len(s) \/ ~RefIsHex(s[i + n])

RECURSIVE RefValue(_, _, _, _)
RefValue(s, i, n, base) ==
    IF n = 0 THEN 0
    ELSE base * RefValue(s, i, n - 1, base) + RefDigit(s[i + n - 1])

\* The character the text starts with once decoded, and the number of
\* characters of the text that stand for it
RefFirst(s) ==
    IF s[1] # BACKSLASH \/ Len(s) = 1 THEN [char |-> s[1], len |-> 1]
    ELSE IF RefIsOctal(s[2])
    THEN [char |-> RefValue(s, 2, RefOctalRun(s, 2, 3), 8) % 256,
          len |-> 1 + RefOctalRun(s, 2, 3)]
    ELSE IF s[2] = 120 /\ RefHexRun(s, 3, 2) > 0
    THEN [char |-> RefValue(s, 3, RefHexRun(s, 3, 2), 16) % 256,
          len |-> 2 + RefHexRun(s, 3, 2)]
    ELSE [char |-> CASE s[2] = 98 -> 8 [] s[2] = 102 -> 12 [] s[2] = 110 -> 10
                     [] s[2] = 114 -> 13 [] s[2] = 116 -> 9 [] s[2] = 118 -> 11
                     [] OTHER -> s[2],
          len |-> 2]

RECURSIVE RefDecode(_)
RefDecode(s) ==
    IF s = <<>> THEN <<>>
    ELSE <<RefFirst(s).char>> \o RefDecode(Drop(s, RefFirst(s).len))

\* C17 -- Unescape grammar: for every text, unescape_copy_text gives the
\* reference decoding: after a backslash, b, f, n, r, t, v give the control
\* characters; 1 to 3 octal digits, as many as there are, give one character
\* of their value & 0o377; x with 1 to 2 hex digits, as many as there are,
\* gives one character of their value & 0xFF, and x without a hex digit
\* gives x; any other character after a backslash (a backslash or N
\* included) gives that character; a lone backslash at the end is kept; and
\* a character that no backslash precedes is unchanged.
C17_UnescapeGrammar ==
    last.op = "unescape_copy_text" => last.out = RefDecode(last.field)

\* The text backslash-n-backslash-7-7 was unescaped
C17_Witness ==
    /\ last.op = "unescape_copy_text"
    /\ last.field = <<BACKSLASH, 110, BACKSLASH, 55, 55>>
    /\ last.out = <<LF, 63>>

\* The text is an integer: an optional '-' sign and then decimal digits
RefInteger(text) ==
    LET body == IF text # <<>> /\ text[1] = MINUS THEN Tail(text) ELSE text
    IN  body # <<>> /\ \A i \in DOMAIN body : body[i] \in 48..57

\* The text is a decimal: an optional '-' sign and then decimal digits, at
\* least one, with at most one '.' among them
RefDecimal(text) ==
    LET body == IF text # <<>> /\ text[1] = MINUS THEN Tail(text) ELSE text
    IN  /\ \A i \in DOMAIN body : body[i] \in (48..57) \cup {DOT}
        /\ \E i \in DOMAIN body : body[i] \in 48..57
        /\ Cardinality({i \in DOMAIN body : body[i] = DOT}) <= 1

\* The type the smart converter is to return for an unescaped text
RefSmartType(out, text) ==
    IF RefInteger(text) THEN out.t = "int"
    ELSE IF RefDecimal(text) THEN out.t = "Decimal"
    ELSE out.t \in {"library", "str"}

\* C18 -- Smart converter is total with ordered fallback: for every field
\* that is not the null marker, SmartDataConverter._convert_column unescapes
\* the field and returns the first successful parse, integer before decimal
\* before the address, network, UUID and timestamp parsers; when no parse
\* succeeds (digits with a misplaced or repeated '-' sign among the cases)
\* it returns the unescaped string, and it never raises.
C18_SmartConverterTotal ==
    (last.op = "convert_column" /\ last.column # <<BACKSLASH, CHAR_N>>) =>
        /\ last.out.t # "ValueError"
        /\ last.out.text = unescape_copy_text(last.column)
        /\ RefSmartType(last.out, last.out.text)

----------------------------------------------------------------------------
(* Properties: the integer codec *)

\* The magnitude that bytes first..last stand for, low byte first
RECURSIVE LittleEndian(_, _, _)
LittleEndian(bytes, first, last_) ==
    IF first > last_ THEN 0
    ELSE bytes[first] + 256 * LittleEndian(bytes, first + 1, last_)

Abs(n) == IF n < 0 THEN -n ELSE n

\* C19 -- Codec round-trip: for every integer n with |n| < 2^(8*I), _read_int
\* on the bytes written by _write_int(n) returns n and consumes exactly
\* I + 1 bytes, one sign byte and I little-endian magnitude bytes; and an
\* offset, a data_state byte and O little-endian magnitude bytes without a
\* sign byte, with 0 <= value < 2^(8*O), comes back from _read_offset as
\* _write_offset was given it.
C19_CodecRoundTrip ==
    /\ (last.op = "int" /\ Abs(last.value) < Pow256(last.size)) =>
          /\ ~last.read.none /\ last.read.v = last.value
          /\ last.read.rest = <<last.next>>
          /\ Len(last.bytes) = last.size + 1
          /\ last.bytes[1] = (IF last.value < 0 THEN 1 ELSE 0)
          /\ \A k \in 2..Len(last.bytes) : last.bytes[k] \in 0..255
          /\ LittleEndian(last.bytes, 2, last.size + 1) = Abs(last.value)
    /\ (last.op = "offset" /\ last.value < Pow256(last.size)) =>
          /\ last.read.value = last.value
          /\ last.read.data_state = last.data_state
          /\ last.read.rest = <<last.next>>
          /\ Len(last.bytes) = last.size + 1
          /\ last.bytes[1] = last.data_state
          /\ \A k \in 2..Len(last.bytes) : last.bytes[k] \in 0..255
          /\ LittleEndian(last.bytes, 2, last.size + 1) = last.value

\* The most negative int of two bytes was written and read back
C19_Witness ==
    /\ last.op = "int" /\ last.size = 2 /\ last.value = 1 - Pow256(2)
    /\ last.bytes = <<1, 255, 255>>
    /\ last.read.v = last.value /\ last.read.rest = <<last.next>>

----------------------------------------------------------------------------
(* Properties: the archive version of a new dump *)

\* The header version that the claim gives for a Postgres version
VersionFor(appear_as) ==
    CASE appear_as \in {"9.6.4", "10.1"} -> <<1, 12, 0>>
      [] appear_as \in {"10.3", "11.0"} -> <<1, 13, 0>>
      [] appear_as \in {"12.0", "omitted"} -> <<1, 14, 0>>

\* C20 -- appear_as version mapping: constructing an archive with appear_as
\* set to a Postgres version gives header version 1.12.0 for 9.x and 10.0 to
\* 10.2, 1.13.0 for 10.3 up to 11.x and 1.14.0 for 12 and later (1.14.0 also
\* when appear_as is omitted), and fails with the unsupported-Postgres-version
\* error for versions outside the known map (8.4.0, 100.0).
C20_AppearAsVersion ==
    last.op = "new" =>
        IF last.appear_as \in {"8.4.0", "100.0"}
        THEN last.out = "RuntimeError: Unsupported Postgres version"
        ELSE last.out = "ok" /\ version = VersionFor(last.appear_as)

----------------------------------------------------------------------------
(* Properties: offsets and data states in a saved file *)

\* The file f holds at the offset a block header: a block-type byte of
\* BLK_DATA or BLK_BLOBS and then this dump id
BlockAt(f, offset, dump_id) ==
    LET k == item_at(f, offset)
    IN  /\ k # 0 /\ k < Len(f.data)
        /\ f.data[k].k = "byte" /\ f.data[k].v \in {BLK_DATA, BLK_BLOBS}
        /\ f.data[k + 1].k = "int" /\ f.data[k + 1].v = dump_id

\* C21 -- Offset invariant after save: for every entry of a saved archive,
\* data_state is pos-set if and only if offset > 0 and the file holds at
\* that offset a data block whose leading block-type byte is BLK_DATA or
\* BLK_BLOBS and whose dump id is the entry's; and an entry without data
\* (no-data) has offset 0.
C21_OffsetInvariant ==
    [][(SaveStep /\ last'.out = "ok") =>
         \A i \in DOMAIN file'.toc :
            /\ (file'.toc[i].data_state = K_OFFSET_POS_SET)
               <=> (/\ file'.toc[i].offset > 0
                    /\ BlockAt(file', file'.toc[i].offset,
                               file'.toc[i].dump_id))
            /\ file'.toc[i].data_state = K_OFFSET_NO_DATA
               => file'.toc[i].offset = 0]_vars

\* The entries that save writes a block for
HasBlock(w) == w.desc \in {TABLE_DATA, BLOBS}

\* C22 -- Back-patching is position-preserving: in one save, the table of
\* contents written again after the data blocks has the entries in the order
\* of the placeholder written first and takes exactly as many bytes, so that
\* it ends where the first data block starts and overwrites no byte of a
\* data block, and every offset recorded for an entry is the position of
\* that entry's own block header (the type byte and then its dump id).
C22_BackPatchInPlace ==
    [][(/\ SaveStep /\ last'.out = "ok"
        /\ \E i \in DOMAIN entries : HasBlock(entries[i]))
       => LET toc1 == write_toc_entries(entries)
          IN  /\ IdsInOrder(file'.toc) = IdsInOrder(toc1)
              /\ SizeToc(file'.toc) = SizeToc(toc1)
              /\ \A i \in DOMAIN file'.toc :
                    HasBlock(file'.toc[i]) =>
                       /\ file'.toc[i].offset >= data_start(toc1)
                       /\ BlockAt(file', file'.toc[i].offset,
                                  file'.toc[i].dump_id)]_vars

\* A save has written an archive with two data blocks, both with payload
C22_Witness ==
    /\ last.op = "save" /\ last.out = "ok"
    /\ Cardinality({i \in DOMAIN file.toc :
                       /\ file.toc[i].data_state = K_OFFSET_POS_SET
                       /\ file.toc[i].offset > 0}) >= 2

----------------------------------------------------------------------------
(* Properties: the table of contents that save writes *)

\* How many times the table of contents holds the entry as serialized
TimesWritten(toc, entry) ==
    Cardinality({k \in DOMAIN toc : toc[k] = write_entry(entry)})

\* C23 -- ToC completeness on write: in a pass of save over the table of
\* contents every entry of the archive is serialized exactly once (none is
\* skipped, none is written twice, and nothing that is not an entry is
\* written), so that the number of serialized entries is the entry count
\* written in front of them; for authored and for loaded archives, those
\* whose first three entries are not the bootstrap entries included.
C23_TocComplete ==
    [][(SaveStep /\ last'.out = "ok") =>
         /\ file'.count = Len(file'.toc)
         /\ \A i \in DOMAIN entries' : TimesWritten(file'.toc, entries'[i]) = 1
         /\ \A k \in DOMAIN file'.toc :
               \E i \in DOMAIN entries' : file'.toc[k] = write_entry(entries'[i])]_vars

----------------------------------------------------------------------------
(* Properties: the data state of an entry *)

\* The items of the block whose header starts at item k of the data region:
\* those after the type byte and the dump id, up to the next type byte
BlockEnd(f, k) ==
    LET next == {j \in (k + 2)..Len(f.data) : f.data[j].k = "byte"}
    IN  IF next = {} THEN Len(f.data)
        ELSE (CHOOSE j \in next : \A j2 \in next : j <= j2) - 1

\* The payload bytes of that block
PayloadBytes(f, k) ==
    SizeItems(SelectSeq(SubSeq(f.data, k + 2, BlockEnd(f, k)),
                        LAMBDA t : t.k = "raw"))

\* The file f holds a block header with this dump id
BlockOf(f, dump_id) ==
    \E k \in DOMAIN f.data :
        /\ k < Len(f.data) /\ f.data[k].k = "byte"
        /\ f.data[k + 1].k = "int" /\ f.data[k + 1].v = dump_id

\* The block of the entry e of the file f has payload
HasPayload(f, e) ==
    /\ BlockAt(f, e.offset, e.dump_id)
    /\ PayloadBytes(f, item_at(f, e.offset)) # 0

\* C24 -- Data-state transitions on save: after save, a data entry whose
\* data block had nonzero size is in pos-set, with the offset at which its
\* block starts in the file; a data entry whose data block had zero size is
\* in no-data, its block being written all the same, without payload;
\* whatever the state of the entry before the save.
C24_DataStateOnSave ==
    [][(SaveStep /\ last'.out = "ok") =>
         \A i \in DOMAIN entries' :
            HasBlock(entries'[i]) =>
               /\ BlockOf(file', entries'[i].dump_id)
               /\ IF HasPayload(file', entries'[i])
                  THEN entries'[i].data_state = K_OFFSET_POS_SET
                  ELSE entries'[i].data_state = K_OFFSET_NO_DATA]_vars

\* The data state of the entry with this dump id
StateOf(es, dump_id) == get_entry(es, dump_id).data_state

\* C25 -- Data-state transition on authoring: a newly authored data entry
\* is in no-data until its first row is appended and moves from no-data to
\* pos-not-set on that first append; an authored data entry to which
\* nothing was ever appended is never in pos-not-set.
C25_DataStateOnAuthoring ==
    [][/\ (last'.op = "table_data_writer" /\ entries' # entries)
          => entries'[Len(entries')].data_state = K_OFFSET_NO_DATA
       /\ (last'.op = "append" /\ last'.out = "ok")
          => \A d \in DOMAIN appended :
                (appended[d] = <<>> /\ appended'[d] # <<>>) =>
                    /\ StateOf(entries, d) = K_OFFSET_NO_DATA
                    /\ StateOf(entries', d) = K_OFFSET_POS_NOT_SET
       /\ \A k \in DOMAIN writers' :
             appended'[writers'[k].dump_id] = <<>>
                => StateOf(entries', writers'[k].dump_id)
                      # K_OFFSET_POS_NOT_SET]_vars

----------------------------------------------------------------------------
(* Properties: the reader of reader.py *)

\* C26 -- Scan-forward for pos-not-set: reading the data of an entry whose
\* data_state is pos-not-set, the reader reads the block headers in file
\* order, skipping the payload of each block, up to the block whose dump id
\* is the entry's, and returns the data of that block; when the file has no
\* such block the read ends with an error at the end of the file.
C26_ScanForward ==
    (last.op = "read_entry_data" /\ last.data_state = K_OFFSET_POS_NOT_SET
     /\ last.cut = 0)
    => /\ \A k \in DOMAIN last.blocks :
             (/\ last.blocks[k].dump_id = last.dump_id
              /\ \A j \in 1..k : last.blocks[j].b.type = BLK_DATA)
             => last.out = [out |-> "ok", rows |-> last.blocks[k].b.rows]
       /\ (\A k \in DOMAIN last.blocks :
              last.blocks[k].dump_id # last.dump_id)
          => last.out.out # "ok"

----------------------------------------------------------------------------
(* Properties: the open spill files *)

\* C27 -- Spill files are closed between appends: once a table_data_writer
\* scope has exited, the spill file of its row-append handle is not held
\* open, so that however many tables rows were written for, at most one
\* spill file is open.
C27_SpillFilesClosed ==
    [][/\ last'.op = "table_data_writer"
          => writer_index(writers', last'.table) \notin open_handles(writers')
       /\ Cardinality(open_handles(writers')) <= 1]_vars

----------------------------------------------------------------------------
(* Properties: load on an archive object in use *)

\* C28 -- load replaces the whole archive state: after load(path) on an
\* archive object that already holds entries, row-append handles or spill
\* data, the entries, the handles and the spill data that table_data, blobs
\* and a later save draw on are those of the file just loaded; no handle and
\* no spill file from before the load is left.
C28_LoadReplacesState ==
    [][(last'.op = "Dump.load" /\ last'.out = "ok")
          => /\ entries' = load_result(file).es
             /\ writers' = <<>>
             /\ spill' = load_result(file).sp]_vars

----------------------------------------------------------------------------
(* Properties: the dependency graph of an authored archive *)

\* Every dependency of every entry is the dump_id of an entry at an earlier
\* position of the list
DependsOnEarlier(es) ==
    \A i \in DOMAIN es : \A k \in DOMAIN es[i].dependencies :
        \E j \in 1..(i - 1) : es[j].dump_id = es[i].dependencies[k]

\* C29 -- The dependency graph stays resolvable and acyclic: in an archive
\* built from new() with add_entry and table_data_writer only, every
\* dependency of every entry is the dump_id of an entry added earlier, so
\* there is no cycle and no dangling id, and the topological sort in save
\* never fails (neither a circular dependency nor an id without an entry).
C29_DependenciesResolvable ==
    origin = "new" =>
        /\ DependsOnEarlier(entries)
        /\ last.op = "save" =>
              last.out \notin {"CircularDependencyError", "AttributeError"}

\* An authored archive with a table that depends on another table and with a
\* row-append handle was saved
C29_Witness ==
    /\ origin = "new"
    /\ last.op = "save" /\ last.out = "ok"
    /\ \E i \in DOMAIN entries :
          entries[i].desc = "TABLE" /\ entries[i].dependencies # <<>>
    /\ \E i \in DOMAIN entries :
          entries[i].desc = TABLE_DATA /\ entries[i].dependencies # <<>>

----------------------------------------------------------------------------
(* Properties: saving again *)

\* C30 -- save is repeatable: when save is called twice in succession on the
\* same archive, with no authoring in between, the second call succeeds as
\* the first did, writes the same table of contents and the same data blocks
\* (with every row appended before the first save), and leaves the offset and
\* data_state of every entry as the first call left them.
C30_SaveRepeatable ==
    [][(last.op = "save" /\ last.out = "ok" /\ last'.op = "save")
          => /\ last'.out = "ok"
             /\ file' = file
             /\ entries' = entries
             /\ writers' = writers
             /\ spill' = spill]_vars

\* Rows were appended through a handle, and the archive was saved twice in
\* succession; the file holds the block with those rows
C30_Witness ==
    /\ last.op = "save" /\ last.out = "ok" /\ last.again
    /\ origin = "new" /\ file.exists
    /\ saved.ok /\ saved.entries = entries
    /\ \E k \in DOMAIN writers :
          /\ Len(appended[writers[k].dump_id]) = 2
          /\ writers[k].mode = "rb"
          /\ \E e \in Range(entries) :
                /\ e.dump_id = writers[k].dump_id
                /\ e.data_state = K_OFFSET_POS_SET
                /\ BlockAt(file, e.offset, e.dump_id)

====
